---- MODULE Spec2Model ----
(***************************************************************************)
(* Model of the Notion MCP server's error classifier                       *)
(* (mapNotionErrorToMCPError and the error classes of errors.ts), of its   *)
(* message formatter (formatUserMessage), of its response transformer      *)
(* (ResponseTransformer) and of the tool-call handler that uses the three. *)
(*                                                                         *)
(* JavaScript values are records tagged by t:                              *)
(*   undefined, null, boolean, int (an integer-valued number), dec (a      *)
(*   non-integer number, v = ten times the value), NaN, string, array      *)
(*   (v a sequence), object (v a function from its own keys to values).    *)
(* typeof maps int, dec and NaN to "number" and null and array to          *)
(* "object", as the language does.  A thrown exception is the value        *)
(* [t |-> "throw"], propagated by every operator that evaluates it.        *)
(***************************************************************************)
EXTENDS Integers, Sequences, FiniteSets, TLC

VARIABLES pc, input, result, defaultMode, sent, reply

vars == <<pc, input, result, defaultMode, sent, reply>>

-----------------------------------------------------------------------------
(* JavaScript values *)

Undefined == [t |-> "undefined"]
Null == [t |-> "null"]
NaN == [t |-> "NaN"]
Bool(b) == [t |-> "boolean", v |-> b]
Int_(n) == [t |-> "int", v |-> n]
Dec(tenths) == [t |-> "dec", v |-> tenths]
Str(s) == [t |-> "string", v |-> s]
Arr(seq) == [t |-> "array", v |-> seq]
Obj(f) == [t |-> "object", v |-> f]
EmptyObj == Obj(<<>>)
Throw(name) == [t |-> "throw", v |-> name]

IsThrow(x) == x.t = "throw"
IsNullish(x) == x.t \in {"undefined", "null"}
IsArray(x) == x.t = "array"

\* typeof x
TypeOf(x) ==
  CASE x.t \in {"int", "dec", "NaN"} -> "number"
    [] x.t \in {"null", "array", "object"} -> "object"
    [] OTHER -> x.t

\* ToBoolean(x): the test of an if, of && and ||, and Boolean(x)
Truthy(x) ==
  CASE x.t \in {"undefined", "null", "NaN"} -> FALSE
    [] x.t = "boolean" -> x.v
    [] x.t = "int" -> x.v # 0
    [] x.t = "string" -> x.v # ""
    [] OTHER -> TRUE

Abs(n) == IF n < 0 THEN -n ELSE n

\* Number::toString for the numbers of the model
NumberToString(x) ==
  CASE x.t = "int" -> ToString(x.v)
    [] x.t = "dec" -> (IF x.v < 0 THEN "-" ELSE "") \o ToString(Abs(x.v) \div 10)
                        \o "." \o ToString(Abs(x.v) % 10)
    [] OTHER -> "NaN"

RECURSIVE ToStr(_)
RECURSIVE JoinFrom(_, _, _)

\* Array.prototype.join(sep) from index i on: null and undefined elements
\* contribute the empty string
JoinFrom(seq, i, sep) ==
  IF i > Len(seq) THEN ""
  ELSE (IF i > 1 THEN sep ELSE "")
         \o (IF IsNullish(seq[i]) THEN "" ELSE ToStr(seq[i]))
         \o JoinFrom(seq, i + 1, sep)

\* ToString(x): String(x), template literals, the argument of parseInt
ToStr(x) ==
  CASE x.t = "undefined" -> "undefined"
    [] x.t = "null" -> "null"
    [] x.t = "boolean" -> (IF x.v THEN "true" ELSE "false")
    [] x.t \in {"int", "dec", "NaN"} -> NumberToString(x)
    [] x.t = "string" -> x.v
    [] x.t = "array" -> JoinFrom(x.v, 1, ",")
    [] OTHER -> "[object Object]"

Digits == {"0", "1", "2", "3", "4", "5", "6", "7", "8", "9"}
Whitespace == {" ", "\t", "\n", "\r"}

CharAt(s, i) == SubSeq(s, i, i)

DigitValue(c) ==
  CASE c = "0" -> 0 [] c = "1" -> 1 [] c = "2" -> 2 [] c = "3" -> 3
    [] c = "4" -> 4 [] c = "5" -> 5 [] c = "6" -> 6 [] c = "7" -> 7
    [] c = "8" -> 8 [] c = "9" -> 9

RECURSIVE SkipWhile(_, _, _)
\* first index >= i of s whose character is not in set (Len(s) + 1 if none)
SkipWhile(s, i, set) ==
  IF i <= Len(s) /\ CharAt(s, i) \in set THEN SkipWhile(s, i + 1, set) ELSE i

RECURSIVE DigitsValue(_, _, _)
\* the decimal value of the digits s[i..j-1]
DigitsValue(s, i, j) ==
  IF j <= i THEN 0
  ELSE 10 * DigitsValue(s, i, j - 1) + DigitValue(CharAt(s, j - 1))

\* String.prototype.includes
Includes(s, sub) ==
  \E i \in 1..(Len(s) - Len(sub) + 1) : SubSeq(s, i, i + Len(sub) - 1) = sub

\* parseInt(x, 10): ToString, skip leading white space, an optional sign, then
\* the longest run of decimal digits; NaN when there is no digit
parseInt(x) ==
  LET s == ToStr(x)
      i == SkipWhile(s, 1, Whitespace)
      signed == i <= Len(s) /\ CharAt(s, i) \in {"+", "-"}
      neg == signed /\ CharAt(s, i) = "-"
      b == IF signed THEN i + 1 ELSE i
      e == SkipWhile(s, b, Digits)
  IN IF e = b THEN NaN
     ELSE Int_((IF neg THEN -1 ELSE 1) * DigitsValue(s, b, e))

isNaN(x) == x.t = "NaN"

\* x[k] / x.k: reading a property of null or undefined throws a TypeError
Get(x, k) ==
  CASE IsNullish(x) -> Throw("TypeError")
    [] x.t = "object" -> (IF k \in DOMAIN x.v THEN x.v[k] ELSE Undefined)
    [] x.t = "array" -> (IF k = "length" THEN Int_(Len(x.v)) ELSE Undefined)
    [] x.t = "string" -> (IF k = "length" THEN Int_(Len(x.v)) ELSE Undefined)
    [] OTHER -> Undefined

-----------------------------------------------------------------------------
(* errors.ts: the error classes *)

\* new MCPNotionError(...): Error(message) stores ToString(message)
MCPNotionError(type, code, httpStatus, message, retryable, suggestion, operation, params) ==
  [t |-> "error", type |-> type, code |-> code, httpStatus |-> httpStatus,
   message |-> ToStr(message), retryable |-> retryable, suggestion |-> suggestion,
   operation |-> operation, params |-> params, retryAfter |-> Undefined]

AuthenticationErrorAlwaysUnauthorized(message, operation, params, httpStatus) ==
  MCPNotionError("AuthenticationError", "unauthorized", httpStatus, message, FALSE,
    "Vérifiez que votre token NOTION_TOKEN commence par \"ntn_\" et est valide.",
    operation, params)

AuthenticationError(message, operation, params, httpStatus) ==
  MCPNotionError("AuthenticationError",
    IF httpStatus = 403 THEN "forbidden" ELSE "unauthorized", httpStatus, message, FALSE,
    IF httpStatus = 403
      THEN "Votre intégration n'a pas accès à cette ressource. Vérifiez les permissions."
      ELSE "Vérifiez que votre token NOTION_TOKEN commence par \"ntn_\" et est valide.",
    operation, params)

ValidationError(message, field, operation, params) ==
  MCPNotionError("ValidationError", "validation_error", 400, message, FALSE,
    IF Truthy(field)
      THEN "Le champ \"" \o ToStr(field) \o "\" est invalide ou manquant."
      ELSE "Vérifiez vos paramètres.",
    operation, params)

PermissionError(message, operation, params) ==
  MCPNotionError("PermissionError", "forbidden", 403, message, FALSE,
    "Votre intégration n'a pas les permissions nécessaires. Ajoutez la ressource via les paramètres d'intégration.",
    operation, params)

NotFoundError(message, resourceType, operation, params) ==
  MCPNotionError("NotFoundError", "object_not_found", 404, message, FALSE,
    IF Truthy(resourceType)
      THEN "La ressource de type \"" \o ToStr(resourceType)
             \o "\" n'existe pas ou n'est pas partagée avec votre intégration."
      ELSE "Ressource non trouvée.",
    operation, params)

ConflictErrorNotRetryable(message, operation, params) ==
  MCPNotionError("ConflictError", "conflict", 409, message, FALSE,
    "Un conflit est survenu (modification simultanée). Veuillez réessayer.",
    operation, params)

ConflictError(message, operation, params) ==
  MCPNotionError("ConflictError", "conflict", 409, message, TRUE,
    "Un conflit est survenu (modification simultanée). Veuillez réessayer.",
    operation, params)

RateLimitError(message, retryAfter, operation, params) ==
  [MCPNotionError("RateLimitError", "rate_limited", 429, message, TRUE,
     IF Truthy(retryAfter)
       THEN "Attendez " \o ToStr(retryAfter) \o " seconde(s) avant de réessayer."
       ELSE "Ralentissez les requêtes.",
     operation, params)
   EXCEPT !.retryAfter = retryAfter]

ServerError(message, operation, params) ==
  MCPNotionError("ServerError", "internal_server_error", 500, message, TRUE,
    "Une erreur serveur est survenue. Veuillez réessayer dans quelques instants.",
    operation, params)

ErrorKinds ==
  {"AuthenticationError", "ValidationError", "PermissionError", "NotFoundError",
   "ConflictError", "RateLimitError", "ServerError"}

\* error instanceof C: every subclass constructor fixes type to the name of its
\* class, so the class of an error is read from type; an instance of the base
\* class is an error whose type is none of the seven
InstanceOf(error, class) == error.type = class

\* MCPNotionError.toJSON(): ...(x && {k: x}) adds k only when x is truthy
MCPNotionError_toJSON(error) ==
  LET keys == {"type", "code", "httpStatus", "message", "retryable", "suggestion"}
                \cup (IF Truthy(error.operation) THEN {"operation"} ELSE {})
                \cup (IF Truthy(error.params) THEN {"params"} ELSE {})
  IN Obj([k \in keys |->
            CASE k = "type" -> Str(error.type)
              [] k = "code" -> Str(error.code)
              [] k = "httpStatus" -> Int_(error.httpStatus)
              [] k = "message" -> Str(error.message)
              [] k = "retryable" -> Bool(error.retryable)
              [] k = "suggestion" -> Str(error.suggestion)
              [] k = "operation" -> error.operation
              [] k = "params" -> error.params])

\* RateLimitError.toJSON(): the base fields, and retryAfter unless undefined
RateLimitError_toJSON(error) ==
  LET base == MCPNotionError_toJSON(error).v
  IN IF error.retryAfter # Undefined
     THEN Obj([k \in DOMAIN base \cup {"retryAfter"} |->
                 IF k = "retryAfter" THEN error.retryAfter ELSE base[k]])
     ELSE Obj(base)

\* error.toJSON(), dispatched on the class of the error
toJSON(error) ==
  IF InstanceOf(error, "RateLimitError") THEN RateLimitError_toJSON(error)
  ELSE MCPNotionError_toJSON(error)

-----------------------------------------------------------------------------
(* error-formatter.ts: formatUserMessage *)
(* A TLA+ string holds no emoji: each one is written as its code points,   *)
(* <U+1F511> for the key.                                                  *)

\* formatUserMessage with NotFound rendered under the Solution label
formatUserMessageOneLabel(error) ==
  IF InstanceOf(error, "AuthenticationError")
    THEN "<U+1F511> **Erreur d'authentification**\n\n" \o error.message
           \o "\n\n**Solution** : " \o error.suggestion
  ELSE IF InstanceOf(error, "ValidationError")
    THEN "<U+26A0 U+FE0F> **Erreur de validation**\n\n" \o error.message
           \o "\n\n**Solution** : " \o error.suggestion
  ELSE IF InstanceOf(error, "PermissionError")
    THEN "<U+1F512> **Erreur de permission**\n\n" \o error.message
           \o "\n\n**Solution** : " \o error.suggestion
  ELSE IF InstanceOf(error, "NotFoundError")
    THEN "<U+1F50D> **Ressource non trouvée**\n\n" \o error.message
           \o "\n\n**Solution** : " \o error.suggestion
  ELSE IF InstanceOf(error, "ConflictError")
    THEN "<U+26A1> **Conflit détecté**\n\n" \o error.message
           \o "\n\n**Action** : " \o error.suggestion
  ELSE IF InstanceOf(error, "RateLimitError")
    THEN "<U+23F1 U+FE0F> **Limite de requêtes atteinte**\n\n" \o error.message
           \o "\n\n**Action** : " \o error.suggestion
  ELSE IF InstanceOf(error, "ServerError")
    THEN "<U+1F534> **Erreur serveur**\n\n" \o error.message
           \o "\n\n**Action** : " \o error.suggestion
  ELSE "<U+274C> **Erreur** : " \o error.message

\* formatUserMessage(error)
formatUserMessage(error) ==
  IF InstanceOf(error, "AuthenticationError")
    THEN "<U+1F511> **Erreur d'authentification**\n\n" \o error.message
           \o "\n\n**Solution** : " \o error.suggestion
  ELSE IF InstanceOf(error, "ValidationError")
    THEN "<U+26A0 U+FE0F> **Erreur de validation**\n\n" \o error.message
           \o "\n\n**Solution** : " \o error.suggestion
  ELSE IF InstanceOf(error, "PermissionError")
    THEN "<U+1F512> **Erreur de permission**\n\n" \o error.message
           \o "\n\n**Solution** : " \o error.suggestion
  ELSE IF InstanceOf(error, "NotFoundError")
    THEN "<U+1F50D> **Ressource non trouvée**\n\n" \o error.message
           \o "\n\n**Détails** : " \o error.suggestion
  ELSE IF InstanceOf(error, "ConflictError")
    THEN "<U+26A1> **Conflit détecté**\n\n" \o error.message
           \o "\n\n**Action** : " \o error.suggestion
  ELSE IF InstanceOf(error, "RateLimitError")
    THEN "<U+23F1 U+FE0F> **Limite de requêtes atteinte**\n\n" \o error.message
           \o "\n\n**Action** : " \o error.suggestion
  ELSE IF InstanceOf(error, "ServerError")
    THEN "<U+1F534> **Erreur serveur**\n\n" \o error.message
           \o "\n\n**Action** : " \o error.suggestion
  ELSE "<U+274C> **Erreur** : " \o error.message

-----------------------------------------------------------------------------
(* proxy.ts: mapNotionErrorToMCPError *)

\* the generic text kept with its status digits
StripStatusKeepsDigits(originalMessage) == originalMessage

\* originalMessage.replace(/^\d+\s*/, ''): a leading run of one or more digits
\* and the white space after it are removed
StripStatus(originalMessage) ==
  LET d == SkipWhile(originalMessage, 1, Digits)
      w == SkipWhile(originalMessage, d, Whitespace)
  IN IF d = 1 THEN originalMessage
     ELSE SubSeq(originalMessage, w, Len(originalMessage))

IsErrorDataNoNullCheck(data) == TypeOf(data) = "object"

\* typeof data === 'object' && data !== null
IsErrorData(data) == TypeOf(data) = "object" /\ data # Null

\* the coercion of errorData.retry_after
CoerceRetryAfter(ra) == IF TypeOf(ra) = "number" THEN ra ELSE parseInt(ra)

\* the extraction step: message, errorCode, field and retryAfter after it
ExtractErrorData(data, originalMessage) ==
  LET stripped == Str(StripStatus(originalMessage))
  IN IF IsErrorData(data)
     THEN LET m == Get(data, "message")
              c == Get(data, "code")
              f == Get(data, "field")
              ra == Get(data, "retry_after")
          IN IF IsThrow(m) THEN m
             ELSE [t |-> "extracted",
                   message |-> IF Truthy(m) THEN m ELSE stripped,
                   errorCode |-> IF Truthy(c) THEN c ELSE Undefined,
                   field |-> IF Truthy(f) THEN f ELSE Undefined,
                   retryAfter |-> IF ra # Undefined THEN CoerceRetryAfter(ra) ELSE Undefined]
     ELSE [t |-> "extracted", message |-> stripped, errorCode |-> Undefined,
           field |-> Undefined, retryAfter |-> Undefined]

\* the inference with page looked for before block
InferResourceTypePageFirst(operation) ==
  IF ~Truthy(operation) THEN Undefined
  ELSE IF Includes(operation.v, "page") THEN Str("page")
  ELSE IF Includes(operation.v, "block") THEN Str("block")
  ELSE IF Includes(operation.v, "data_source") \/ Includes(operation.v, "data-source")
    THEN Str("database")
  ELSE IF Includes(operation.v, "database") THEN Str("database")
  ELSE IF Includes(operation.v, "user") THEN Str("user")
  ELSE Undefined

\* case 404: the resource type inferred from the operation id, first match wins
InferResourceType(operation) ==
  IF ~Truthy(operation) THEN Undefined
  ELSE IF Includes(operation.v, "block") THEN Str("block")
  ELSE IF Includes(operation.v, "page") THEN Str("page")
  ELSE IF Includes(operation.v, "data_source") \/ Includes(operation.v, "data-source")
    THEN Str("database")
  ELSE IF Includes(operation.v, "database") THEN Str("database")
  ELSE IF Includes(operation.v, "user") THEN Str("user")
  ELSE Undefined

\* case 429 with the body winning: the header is read only when the body gave
\* no retry_after
RetryAfter429BodyWins(headers, retryAfter) ==
  IF retryAfter = Undefined /\ Truthy(headers)
  THEN LET retryAfterHeader == headers.v
       IN IF Truthy(retryAfterHeader) /\ ~isNaN(parseInt(retryAfterHeader))
          THEN parseInt(retryAfterHeader)
          ELSE retryAfter
  ELSE retryAfter

\* case 429: retryAfter after the Retry-After header was looked at; headers.v
\* is what error.headers.get('Retry-After') returns (null or a string)
RetryAfter429(headers, retryAfter) ==
  IF Truthy(headers)
  THEN LET retryAfterHeader == headers.v
       IN IF Truthy(retryAfterHeader) /\ ~isNaN(parseInt(retryAfterHeader))
          THEN parseInt(retryAfterHeader)
          ELSE retryAfter
  ELSE retryAfter

mapNotionErrorToMCPError(error, operation, params) ==
  LET x == ExtractErrorData(error.data, error.message)
  IN IF IsThrow(x) THEN x
     ELSE CASE error.status = 400 -> ValidationError(x.message, x.field, operation, params)
            [] error.status = 401 -> AuthenticationError(x.message, operation, params, 401)
            [] error.status = 403 ->
                 (IF x.errorCode = Str("permission_required")
                  THEN PermissionError(x.message, operation, params)
                  ELSE AuthenticationError(x.message, operation, params, 403))
            [] error.status = 404 ->
                 NotFoundError(x.message, InferResourceType(operation), operation, params)
            [] error.status = 409 -> ConflictError(x.message, operation, params)
            [] error.status = 429 ->
                 RateLimitError(x.message, RetryAfter429(error.headers, x.retryAfter),
                                operation, params)
            [] error.status \in {500, 502, 503, 504} ->
                 ServerError(x.message, operation, params)
            [] OTHER -> ServerError(x.message, operation, params)


-----------------------------------------------------------------------------
(* The failures given to the classifier *)

MaxStatus == 599
Statuses == 100..MaxStatus

\* statuses with a case of their own in the switch, and some without
KeyStatuses == {400, 401, 403, 404, 409, 429, 500, 501, 502, 503, 504, 418}

\* error.headers: absent, or a Headers object, held as what its
\* get('Retry-After') returns
Headers(retryAfterHeader) == [t |-> "headers", v |-> retryAfterHeader]

HeaderValues ==
  {Undefined, Headers(Null), Headers(Str("10")), Headers(Str("")), Headers(Str("abc")),
   Headers(Str("-5")), Headers(Str("7.5")), Headers(Str(" 20s"))}

MessageValues == {Str("Invalid input"), Str(""), Int_(5), Null}
CodeValues == {Str("permission_required"), Str("validation_error"), Int_(403)}
FieldValues == {Str("title"), Int_(0)}
RetryAfterValues ==
  {Int_(30), Int_(0), Int_(-5), Dec(15), Str("15"), Str("abc"), Str("-5"), Str("1.5"),
   Str(""), Null, Bool(TRUE), EmptyObj, Arr(<<Int_(7)>>)}

\* the object with the given fields, a field whose value is Absent left out
Absent == [t |-> "absent"]
ObjOf(f) == Obj([k \in {k \in DOMAIN f : f[k] # Absent} |-> f[k]])

ObjectBodies ==
  {ObjOf([message |-> m, code |-> c, field |-> f, retry_after |-> ra]) :
     m \in MessageValues \cup {Absent}, c \in CodeValues \cup {Absent},
     f \in FieldValues \cup {Absent}, ra \in RetryAfterValues \cup {Absent}}

NonObjectBodies == {Undefined, Null, Str("Plain string error"), Arr(<<>>), Int_(7)}

RetryBodies ==
  {ObjOf([message |-> Str("Rate limited"), retry_after |-> ra]) :
     ra \in RetryAfterValues \cup {Absent}}

BasicBodies ==
  {Undefined, Null, Str("Plain string error"),
   ObjOf([message |-> Str("Access denied"), code |-> Str("permission_required"),
          field |-> Str("title"), retry_after |-> Str("15")]),
   ObjOf([retry_after |-> Str("abc")])}

OriginalMessages == {"404 Not Found", "Bad Request", "502   Bad Gateway", "429", ""}

OperationIds ==
  {Undefined, Str(""), Str("retrieve-a-block"), Str("retrieve-a-page"),
   Str("retrieve-block-children-of-page"), Str("query-a-data-source"),
   Str("update_data_source"), Str("retrieve-a-database"), Str("retrieve-a-user"),
   Str("create-a-comment")}

ParamValues == {Undefined, Obj([page_id |-> Str("123")])}

HttpClientError(status, data, message, headers) ==
  [status |-> status, data |-> data, message |-> message, headers |-> headers]

ClassifyCall(error, operation, params) ==
  [op |-> "classify", error |-> error, operation |-> operation, params |-> params]

ClassifyInputs ==
  {ClassifyCall(HttpClientError(s, d, "Bad Request", h), o, p) :
     s \in Statuses, d \in BasicBodies, h \in {Undefined, Headers(Str("10"))},
     o \in {Undefined, Str("retrieve-a-block")}, p \in ParamValues}
  \cup
  {ClassifyCall(HttpClientError(s, d, "Bad Request", Undefined), Undefined, Undefined) :
     s \in KeyStatuses, d \in ObjectBodies \cup NonObjectBodies}
  \cup
  {ClassifyCall(HttpClientError(429, d, "429 Too Many Requests", h), Undefined, Undefined) :
     d \in RetryBodies \cup NonObjectBodies, h \in HeaderValues}
  \cup
  {ClassifyCall(HttpClientError(s, d, m, Undefined), o, Undefined) :
     s \in {404, 400}, d \in {Undefined, ObjOf([message |-> Str("Resource not found")])},
     m \in OriginalMessages, o \in OperationIds}

NoResult == [t |-> "none"]

InitClassify ==
  /\ pc = "call"
  /\ input \in ClassifyInputs
  /\ result = NoResult
  /\ defaultMode = Str("full")
  /\ sent = NoResult
  /\ reply = NoResult

\* one call of mapNotionErrorToMCPError
Classify ==
  /\ pc = "call"
  /\ input.op = "classify"
  /\ result' = mapNotionErrorToMCPError(input.error, input.operation, input.params)
  /\ pc' = "done"
  /\ UNCHANGED <<input, defaultMode, sent, reply>>

SpecClassify == InitClassify /\ [][Classify]_vars

Classified == pc = "done" /\ input.op = "classify"

-----------------------------------------------------------------------------
(* Claims about the classifier, checked under SpecClassify *)

\* the body is a JSON object that has the field k
BodyHas(k) == input.error.data.t = "object" /\ k \in DOMAIN input.error.data.v

\* C1: the classifier is total: for every status in 100..599, every body
\* shape, headers present or absent, operation and params supplied or not, it
\* returns one Typed Error of one of the seven kinds and never throws.
C1_ClassifierTotal ==
  Classified => (~IsThrow(result) /\ result.t = "error" /\ result.type \in ErrorKinds)

\* a null body and a status with no case of its own were classified
C1_Witness ==
  /\ Classified
  /\ input.error.data = Null
  /\ input.error.status = 418
  /\ result.t = "error"
  /\ result.type = "ServerError"

\* C2: status maps to kind and code as the table says: 400 Validation /
\* validation_error, 401 Authentication / unauthorized, 403 Permission /
\* forbidden when the body's code is permission_required and Authentication /
\* forbidden otherwise, 404 NotFound / object_not_found, 409 Conflict /
\* conflict, 429 RateLimit / rate_limited, every other status Server /
\* internal_server_error.
C2_StatusTable ==
  Classified =>
    LET s == input.error.status
        permissionRequired ==
          BodyHas("code") /\ input.error.data.v["code"] = Str("permission_required")
    IN /\ result.t = "error"
       /\ <<result.type, result.code>> =
            IF s = 400 THEN <<"ValidationError", "validation_error">>
            ELSE IF s = 401 THEN <<"AuthenticationError", "unauthorized">>
            ELSE IF s = 403 /\ permissionRequired THEN <<"PermissionError", "forbidden">>
            ELSE IF s = 403 THEN <<"AuthenticationError", "forbidden">>
            ELSE IF s = 404 THEN <<"NotFoundError", "object_not_found">>
            ELSE IF s = 409 THEN <<"ConflictError", "conflict">>
            ELSE IF s = 429 THEN <<"RateLimitError", "rate_limited">>
            ELSE <<"ServerError", "internal_server_error">>

\* a 403 whose body is absent was classified Authentication / forbidden
C2_Witness ==
  /\ Classified
  /\ input.error.status = 403
  /\ input.error.data = Undefined
  /\ result.type = "AuthenticationError"
  /\ result.code = "forbidden"

\* C3: retryable is a function of the kind alone: true for Conflict, RateLimit
\* and Server, false for Authentication, Validation, Permission and NotFound.
C3_RetryableByKind ==
  Classified =>
    /\ result.t = "error"
    /\ result.retryable = (result.type \in {"ConflictError", "RateLimitError", "ServerError"})

\* a 409 with a body was classified as a retryable Conflict
C3_Witness ==
  /\ Classified
  /\ input.error.status = 409
  /\ BodyHas("message")
  /\ result.type = "ConflictError"
  /\ result.retryable

\* C4: the Typed Error's httpStatus is the status of the failure it was
\* classified from, for every status.
C4_HttpStatusIsOriginating ==
  Classified => (result.t = "error" /\ result.httpStatus = input.error.status)

\* C5 as claimed: for status 429 the body wins: when the body has a numeric
\* retry_after, retryAfter is the body's value, whatever the Retry-After header
\* holds.
C5_BodyWins ==
  (/\ Classified
   /\ input.error.status = 429
   /\ BodyHas("retry_after")
   /\ ~isNaN(CoerceRetryAfter(input.error.data.v["retry_after"]))) =>
    result.retryAfter = CoerceRetryAfter(input.error.data.v["retry_after"])

\* the failure has headers whose Retry-After is non-empty and parses to a number
HeaderUsable ==
  /\ input.error.headers.t = "headers"
  /\ input.error.headers.v.t = "string"
  /\ input.error.headers.v.v # ""
  /\ ~isNaN(parseInt(input.error.headers.v))

\* C5 amended: for status 429 the header wins: retryAfter is the parsed
\* Retry-After header whenever the failure has a usable one; the body's
\* retry_after is used only otherwise, and retryAfter is absent when there is
\* neither.
C5_HeaderWins ==
  (Classified /\ input.error.status = 429) =>
    result.retryAfter =
      IF HeaderUsable THEN parseInt(input.error.headers.v)
      ELSE IF BodyHas("retry_after")
        THEN CoerceRetryAfter(input.error.data.v["retry_after"])
      ELSE Undefined

\* body and header both gave a value, they differ, and the header's was kept
C5_Witness ==
  /\ Classified
  /\ input.error.status = 429
  /\ BodyHas("retry_after")
  /\ input.error.data.v["retry_after"] = Int_(30)
  /\ input.error.headers = Headers(Str("10"))
  /\ result.retryAfter = Int_(10)

\* C6: a Typed Error that carries retryAfter carries a non-negative integer.
C6_RetryAfterNonNegativeInteger ==
  (Classified /\ result.t = "error" /\ result.retryAfter # Undefined) =>
    (result.retryAfter.t = "int" /\ result.retryAfter.v >= 0)

\* the markers looked for in the operation id, in priority order, each with
\* the resource type it stands for
Markers ==
  <<<<"block", "block">>, <<"page", "page">>, <<"data_source", "database">>,
    <<"data-source", "database">>, <<"database", "database">>, <<"user", "user">>>>

\* the positions of the markers the operation id contains
Matches(operation) ==
  IF operation.t = "string"
  THEN {i \in 1..Len(Markers) : Includes(operation.v, Markers[i][1])}
  ELSE {}

\* the resource type of the first marker that matches
FirstMatch(operation) ==
  Markers[CHOOSE i \in Matches(operation) : \A j \in Matches(operation) : i <= j][2]

\* C18: for status 404 the resource type is inferred from the operation id by
\* the first match in the order block, page, data_source or data-source,
\* database, user; the inferred type changes the suggestion text only: kind,
\* code, httpStatus and retryable (and every attribute but suggestion and
\* operation) are those of the same failure classified without an operation id.
C18_ResourceTypeInference ==
  (Classified /\ input.error.status = 404) =>
    LET plain == mapNotionErrorToMCPError(input.error, Undefined, input.params)
    IN /\ result.t = "error"
       /\ result.suggestion =
            IF Matches(input.operation) = {} THEN "Ressource non trouvée."
            ELSE "La ressource de type \"" \o FirstMatch(input.operation)
                   \o "\" n'existe pas ou n'est pas partagée avec votre intégration."
       /\ result.type = "NotFoundError"
       /\ result.code = "object_not_found"
       /\ result.httpStatus = 404
       /\ result.retryable = FALSE
       /\ [result EXCEPT !.suggestion = "", !.operation = Undefined]
            = [plain EXCEPT !.suggestion = ""]

\* an operation id holding both block and page was taken for a block
C18_Witness ==
  /\ Classified
  /\ input.error.status = 404
  /\ input.operation = Str("retrieve-block-children-of-page")
  /\ Cardinality(Matches(input.operation)) = 2
  /\ result.suggestion =
       "La ressource de type \"block\" n'existe pas ou n'est pas partagée avec votre intégration."

\* the failure's generic text without its leading status: the digits it starts
\* with and the white space after them
LeadingRun(s, from, set) ==
  CHOOSE k \in (from - 1)..Len(s) :
    /\ \A i \in from..k : CharAt(s, i) \in set
    /\ (k = Len(s) \/ CharAt(s, k + 1) \notin set)

GenericText(s) ==
  LET d == LeadingRun(s, 1, Digits)
  IN IF d = 0 THEN s ELSE SubSeq(s, LeadingRun(s, d + 1, Whitespace) + 1, Len(s))

\* C19 as claimed: the Typed Error's message is the body's message whenever
\* the body is a JSON object carrying one, and the generic text without its
\* leading status digits otherwise; nothing throws.
C19_BodyMessageOverrides ==
  Classified =>
    /\ result.t = "error"
    /\ result.message =
         IF BodyHas("message") /\ input.error.data.v["message"].t = "string"
         THEN input.error.data.v["message"].v
         ELSE IF BodyHas("message") THEN result.message
         ELSE GenericText(input.error.message)

\* the attributes of a Typed Error
ErrorAttributes ==
  {"type", "code", "httpStatus", "message", "retryable", "suggestion", "operation",
   "params", "retryAfter"}

\* the attributes a field of the body feeds
FedBy(k) ==
  CASE k = "message" -> {"message"}
    [] k = "code" -> {"type", "code", "suggestion"}
    [] k = "field" -> {"suggestion"}
    [] k = "retry_after" -> {"retryAfter", "suggestion"}

\* the body without its field k
Without(data, k) == Obj([j \in DOMAIN data.v \ {k} |-> data.v[j]])

\* C19 amended: the Typed Error's message is the body's message when the body
\* is a JSON object carrying a non-empty one (a truthy value, stringified); an
\* absent, empty or null message leaves the failure's generic text without its
\* leading status digits.  Taking message, code, field or retry_after out of
\* the body changes only the attributes that field feeds, and nothing throws.
C19_NonEmptyBodyMessageOverrides ==
  Classified =>
    /\ result.t = "error"
    /\ result.message =
         IF BodyHas("message") /\ Truthy(input.error.data.v["message"])
         THEN ToStr(input.error.data.v["message"])
         ELSE GenericText(input.error.message)
    /\ input.error.data.t = "object" =>
         \A k \in DOMAIN input.error.data.v :
           LET without ==
                 mapNotionErrorToMCPError(
                   [input.error EXCEPT !.data = Without(input.error.data, k)],
                   input.operation, input.params)
           IN /\ without.t = "error"
              /\ \A a \in ErrorAttributes \ FedBy(k) : without[a] = result[a]

\* a body with an empty message left the generic text, without its status
C19_Witness ==
  /\ Classified
  /\ BodyHas("message")
  /\ input.error.data.v["message"] = Str("")
  /\ input.error.message = "Bad Request"
  /\ result.message = "Bad Request"

-----------------------------------------------------------------------------
(* The classified errors given to toJSON *)

\* mcpError.toJSON() on the error classified from a failure, with the
\* operation and params the classifier was given
SerializeCall(c) ==
  [op |-> "toJSON", error |-> mapNotionErrorToMCPError(c.error, c.operation, c.params),
   operation |-> c.operation, params |-> c.params]

InitSerialize ==
  /\ pc = "call"
  /\ input \in {SerializeCall(c) : c \in ClassifyInputs}
  /\ result = NoResult
  /\ defaultMode = Str("full")
  /\ sent = NoResult
  /\ reply = NoResult

\* one call of toJSON
Serialize ==
  /\ pc = "call"
  /\ input.op = "toJSON"
  /\ result' = toJSON(input.error)
  /\ pc' = "done"
  /\ UNCHANGED <<input, defaultMode, sent, reply>>

SpecSerialize == InitSerialize /\ [][Serialize]_vars

Serialized == pc = "done" /\ input.op = "toJSON"

\* a number that is known: not NaN
KnownNumber(x) == x.t \in {"int", "dec"}

\* C17: the serialized error of a classified failure always has type, code,
\* httpStatus, message, retryable and suggestion; it has operation and params
\* exactly when they were supplied to the classifier; it has retryAfter only
\* for the RateLimit kind and only when the value is known.
C17_SerializedFields ==
  Serialized =>
    /\ result.t = "object"
    /\ {"type", "code", "httpStatus", "message", "retryable", "suggestion"}
         \subseteq DOMAIN result.v
    /\ "operation" \in DOMAIN result.v <=> input.operation # Undefined
    /\ "params" \in DOMAIN result.v <=> input.params # Undefined
    /\ "retryAfter" \in DOMAIN result.v =>
         /\ result.v["type"] = Str("RateLimitError")
         /\ KnownNumber(result.v["retryAfter"])

-----------------------------------------------------------------------------
(* The errors given to formatUserMessage *)

\* errors of the base class, of no recognized kind
BaseErrors ==
  {MCPNotionError(ty, "custom", 418, m, FALSE, "Essayez autre chose.", Undefined, Undefined) :
     ty \in {"MCPNotionError", "TimeoutError"}, m \in {Str("I'm a teapot"), Str("")}}

FormatCall(error) == [op |-> "format", error |-> error]

FormatInputs ==
  {FormatCall(mapNotionErrorToMCPError(c.error, c.operation, c.params)) : c \in ClassifyInputs}
  \cup {FormatCall(e) : e \in BaseErrors}

InitFormat ==
  /\ pc = "call"
  /\ input \in FormatInputs
  /\ result = NoResult
  /\ defaultMode = Str("full")
  /\ sent = NoResult
  /\ reply = NoResult

\* one call of formatUserMessage
Format ==
  /\ pc = "call"
  /\ input.op = "format"
  /\ result' = Str(formatUserMessage(input.error))
  /\ pc' = "done"
  /\ UNCHANGED <<input, defaultMode, sent, reply>>

SpecFormat == InitFormat /\ [][Format]_vars

Formatted == pc = "done" /\ input.op = "format"

\* emoji, localized title and label of each kind
KindTemplate(kind) ==
  CASE kind = "AuthenticationError" -> <<"<U+1F511>", "Erreur d'authentification", "Solution">>
    [] kind = "ValidationError" -> <<"<U+26A0 U+FE0F>", "Erreur de validation", "Solution">>
    [] kind = "PermissionError" -> <<"<U+1F512>", "Erreur de permission", "Solution">>
    [] kind = "NotFoundError" -> <<"<U+1F50D>", "Ressource non trouvée", "Détails">>
    [] kind = "ConflictError" -> <<"<U+26A1>", "Conflit détecté", "Action">>
    [] kind = "RateLimitError" -> <<"<U+23F1 U+FE0F>", "Limite de requêtes atteinte", "Action">>
    [] kind = "ServerError" -> <<"<U+1F534>", "Erreur serveur", "Action">>

\* C20: formatUserMessage is a dispatch on kind: for each of the seven kinds it
\* returns the kind's emoji and bold title, the error's message, and the bold
\* label (Solution for Authentication, Validation and Permission, Détails for
\* NotFound, Action for Conflict, RateLimit and Server) followed by the error's
\* suggestion; an error of no recognized kind gives the generic line holding
\* the message only; it never throws.
C20_FormatterDispatch ==
  Formatted =>
    LET e == input.error
        tpl == KindTemplate(e.type)
    IN result =
         IF e.type \in ErrorKinds
         THEN Str(tpl[1] \o " **" \o tpl[2] \o "**\n\n" \o e.message
                    \o "\n\n**" \o tpl[3] \o "** : " \o e.suggestion)
         ELSE Str("<U+274C> **Erreur** : " \o e.message)

\* a NotFound error with an inferred resource type was rendered under Détails
C20_Witness ==
  /\ Formatted
  /\ input.error.type = "NotFoundError"
  /\ input.error.message = "Resource not found"
  /\ result = Str("<U+1F50D> **Ressource non trouvée**\n\nResource not found\n\n**Détails** : "
                    \o "La ressource de type \"page\" n'existe pas ou n'est pas partagée avec votre intégration.")

-----------------------------------------------------------------------------
(* JavaScript objects and arrays as the transformer reads them *)

\* the property names of an array: its indices as strings
IndexKeys(n) == {ToString(i - 1) : i \in 1..n}
\* the position in a sequence of length n of the element with index key k
PosOf(k, n) == CHOOSE i \in 1..n : ToString(i - 1) = k

\* Object.entries(x), as a function from the own enumerable keys: the fields of
\* an object, the indices of an array or of a string, nothing for a number or
\* a boolean; it throws on null and undefined
CanEnumerate(x) == ~IsNullish(x)
Entries(x) ==
  CASE x.t = "object" -> x.v
    [] x.t = "array" -> [k \in IndexKeys(Len(x.v)) |-> x.v[PosOf(k, Len(x.v))]]
    [] x.t = "string" -> [k \in IndexKeys(Len(x.v)) |-> Str(CharAt(x.v, PosOf(k, Len(x.v))))]
    [] OTHER -> <<>>

\* k in x throws unless x is an object or an array
CanIn(x) == x.t \in {"object", "array"}
In(k, x) ==
  IF x.t = "object" THEN k \in DOMAIN x.v
  ELSE k = "length" \/ k \in IndexKeys(Len(x.v))

\* x[k] of a value that is not null or undefined
Prop(x, k) ==
  IF x.t = "array" /\ k \in IndexKeys(Len(x.v)) THEN x.v[PosOf(k, Len(x.v))]
  ELSE Get(x, k)

\* value: the typeof test left out
IsObjectLikeTruthyOnly(x) == Truthy(x)

\* value && typeof value === 'object'
IsObjectLike(x) == Truthy(x) /\ TypeOf(x) = "object"

\* the array of the results of a map callback, or the exception one of them threw
ArrOrThrow(seq) ==
  IF \E i \in 1..Len(seq) : IsThrow(seq[i]) THEN Throw("TypeError") ELSE Arr(seq)

\* the object of the results computed for its fields, or the exception
ObjOrThrow(f) ==
  IF \E k \in DOMAIN f : IsThrow(f[k]) THEN Throw("TypeError") ELSE Obj(f)

\* array.filter(Boolean)
FilterBoolean(seq) == SelectSeq(seq, Truthy)

-----------------------------------------------------------------------------
(* ResponseTransformer *)

MetadataFields ==
  {"id", "created_time", "last_edited_time", "created_by", "last_edited_by",
   "archived", "in_trash", "url", "public_url", "parent", "object",
   "type", "has_children", "next_cursor", "prev_cursor"}

isMetadataField(key) == key \in MetadataFields

PaginationFields == {"next_cursor", "prev_cursor", "has_more", "type", "object"}

\* extractMetadata(obj): the pagination fields obj has
extractMetadata(obj) ==
  [k \in {k \in PaginationFields : In(k, obj)} |-> Prop(obj, k)]

\* {id: x.id, name: x.name}
IdName(x) == Obj([id |-> Get(x, "id"), name |-> Get(x, "name")])

\* title / rich_text: one fragment's content, null unless it is a text fragment
TextContent(frag) ==
  IF IsNullish(frag) THEN Throw("TypeError")
  ELSE IF Get(frag, "type") = Str("text") /\ IsObjectLike(Get(frag, "text"))
    THEN Get(Get(frag, "text"), "content")
  ELSE Null

\* title / rich_text with an array payload
ExtractText(texts) ==
  LET parts == [i \in 1..Len(texts) |-> TextContent(texts[i])]
      content == Str(JoinFrom(FilterBoolean(parts), 1, ""))
      first == texts[1]
      link == Get(Get(first, "text"), "link")
  IN IF \E i \in 1..Len(texts) : IsThrow(parts[i]) THEN Throw("TypeError")
     ELSE IF /\ Len(texts) > 0
             /\ IsObjectLike(Get(first, "text"))
             /\ IsObjectLike(link)
       THEN Obj([content |-> content, url |-> Get(link, "url")])
     ELSE content

\* files: one file object reduced, null when it is neither external nor hosted
ExtractFile(file) ==
  IF IsNullish(file) THEN Throw("TypeError")
  ELSE IF Get(file, "type") = Str("external") /\ Truthy(Get(file, "external"))
    THEN Obj([url |-> Get(Get(file, "external"), "url")])
  ELSE IF Get(file, "type") = Str("file") /\ Truthy(Get(file, "file"))
    THEN Obj([url |-> Get(Get(file, "file"), "url"),
              expiry_time |-> Get(Get(file, "file"), "expiry_time")])
  ELSE Null

\* formula with number looked for before string
ExtractFormulaNumberFirst(formula) ==
  IF In("number", formula) THEN Prop(formula, "number")
  ELSE IF In("string", formula) THEN Prop(formula, "string")
  ELSE IF In("boolean", formula) THEN Prop(formula, "boolean")
  ELSE IF In("date", formula) THEN Prop(formula, "date")
  ELSE Null

\* formula: the first of string, number, boolean, date the payload has
ExtractFormula(formula) ==
  IF In("string", formula) THEN Prop(formula, "string")
  ELSE IF In("number", formula) THEN Prop(formula, "number")
  ELSE IF In("boolean", formula) THEN Prop(formula, "boolean")
  ELSE IF In("date", formula) THEN Prop(formula, "date")
  ELSE Null

\* rollup: the first of number, date, array the payload has
ExtractRollup(rollup) ==
  IF In("number", rollup) THEN Prop(rollup, "number")
  ELSE IF In("date", rollup) THEN Prop(rollup, "date")
  ELSE IF In("array", rollup) THEN Prop(rollup, "array")
  ELSE Null

\* unique_id: prefix-number when a prefix is set, else the number
ExtractUniqueId(uniqueId) ==
  LET prefix == Get(uniqueId, "prefix")
      num == Get(uniqueId, "number")
  IN IF num # Undefined
     THEN (IF Truthy(prefix) THEN Str(ToStr(prefix) \o "-" \o ToStr(num)) ELSE num)
     ELSE Null

\* extractNotionValue(property)
extractNotionValue(property) ==
  IF ~Truthy(property) \/ TypeOf(property) # "object" THEN property
  ELSE LET type == Prop(property, "type")
           payload == IF type.t = "string" THEN Prop(property, type.v) ELSE Undefined
       IN IF ~Truthy(type) THEN property
          ELSE IF type \in {Str("title"), Str("rich_text")}
            THEN (IF IsArray(payload) THEN ExtractText(payload.v) ELSE payload)
          ELSE IF type \in {Str("select"), Str("status")}
            THEN (IF IsObjectLike(payload) THEN Get(payload, "name") ELSE Null)
          ELSE IF type = Str("multi_select")
            THEN (IF IsArray(payload)
                  THEN (IF \E i \in 1..Len(payload.v) : IsNullish(payload.v[i])
                        THEN Throw("TypeError")
                        ELSE Arr(FilterBoolean([i \in 1..Len(payload.v) |->
                                                  Get(payload.v[i], "name")])))
                  ELSE Arr(<<>>))
          ELSE IF type = Str("date")
            THEN (IF IsObjectLike(payload)
                  THEN (IF Truthy(Get(payload, "end"))
                        THEN Obj([start |-> Get(payload, "start"), end |-> Get(payload, "end")])
                        ELSE Get(payload, "start"))
                  ELSE Null)
          ELSE IF type \in {Str("number"), Str("checkbox"), Str("url"), Str("email"),
                            Str("phone_number"), Str("created_time"), Str("last_edited_time")}
            THEN payload
          ELSE IF type = Str("files")
            THEN (IF IsArray(payload)
                  THEN LET fs == [i \in 1..Len(payload.v) |-> ExtractFile(payload.v[i])]
                       IN IF \E i \in 1..Len(fs) : IsThrow(fs[i]) THEN Throw("TypeError")
                          ELSE Arr(FilterBoolean(fs))
                  ELSE Arr(<<>>))
          ELSE IF type = Str("people")
            THEN (IF IsArray(payload)
                  THEN (IF \E i \in 1..Len(payload.v) : IsNullish(payload.v[i])
                        THEN Throw("TypeError")
                        ELSE Arr([i \in 1..Len(payload.v) |-> IdName(payload.v[i])]))
                  ELSE Arr(<<>>))
          ELSE IF type = Str("relation")
            THEN (IF IsArray(payload) THEN payload ELSE Arr(<<>>))
          ELSE IF type = Str("formula")
            THEN (IF IsObjectLike(payload) THEN ExtractFormula(payload) ELSE Null)
          ELSE IF type = Str("rollup")
            THEN (IF IsObjectLike(payload) THEN ExtractRollup(payload) ELSE Null)
          ELSE IF type \in {Str("created_by"), Str("last_edited_by")}
            THEN (IF IsObjectLike(payload) THEN IdName(payload) ELSE Null)
          ELSE IF type = Str("unique_id")
            THEN (IF IsObjectLike(payload) THEN ExtractUniqueId(payload) ELSE Null)
          ELSE IF type = Str("place")
            THEN (IF IsObjectLike(payload) THEN payload ELSE Null)
          ELSE property

\* transformProperties that keeps an extracted value only when it is truthy
transformPropertiesTruthyOnly(properties) ==
  LET e == Entries(properties)
      x == [k \in DOMAIN e |-> IF IsObjectLike(e[k]) THEN extractNotionValue(e[k]) ELSE e[k]]
  IN ObjOrThrow([k \in DOMAIN e |-> IF IsThrow(x[k]) \/ Truthy(x[k]) THEN x[k] ELSE Null])

\* transformProperties that drops the entries extraction leaves as they are
transformPropertiesDropsUnknown(properties) ==
  LET e == Entries(properties)
      kept == {k \in DOMAIN e : ~(IsObjectLike(e[k]) /\ extractNotionValue(e[k]) = e[k])}
  IN ObjOrThrow([k \in kept |->
                   IF IsObjectLike(e[k]) THEN extractNotionValue(e[k]) ELSE e[k]])

\* transformProperties(properties)
transformProperties(properties) ==
  LET e == Entries(properties)
  IN ObjOrThrow([k \in DOMAIN e |->
                   IF IsObjectLike(e[k]) THEN extractNotionValue(e[k]) ELSE e[k]])

RECURSIVE transformObject(_, _)
RECURSIVE transformValue(_, _)
RECURSIVE TransformField(_, _)

\* transformValue(value, key)
transformValue(value, key) ==
  IF IsNullish(value) THEN value
  ELSE IF IsArray(value)
    THEN ArrOrThrow([i \in 1..Len(value.v) |->
                       IF IsObjectLike(value.v[i])
                       THEN transformObject(value.v[i], Undefined)
                       ELSE value.v[i]])
  ELSE IF TypeOf(value) = "object" THEN transformObject(value, Undefined)
  ELSE value

\* the body of transformObject's loop over all fields: what result[key] gets
TransformField(key, value) ==
  IF isMetadataField(key) THEN value
  ELSE IF key = "properties" /\ TypeOf(value) = "object" /\ value # Null
    THEN transformProperties(value)
  ELSE transformValue(value, key)

\* fields && fields.length > 0, and the names the for..of loop visits
HasFields(fields) == Truthy(fields) /\ fields.t = "array" /\ Len(fields.v) > 0
FieldNames(fields) == {fields.v[i].v : i \in 1..Len(fields.v)}

\* transformObject(obj, fields)
transformObject(obj, fields) ==
  IF HasFields(fields)
  THEN IF ~CanIn(obj) THEN Throw("TypeError")
       ELSE ObjOrThrow([f \in {f \in FieldNames(fields) : In(f, obj)} |->
                          transformValue(Prop(obj, f), f)])
  ELSE IF ~CanEnumerate(obj) THEN Throw("TypeError")
       ELSE LET e == Entries(obj)
            IN ObjOrThrow([k \in DOMAIN e |-> TransformField(k, e[k])])

RECURSIVE transformReduced(_, _)

\* transformReduced(data, fields)
transformReduced(data, fields) ==
  IF IsNullish(data) THEN data
  ELSE IF IsArray(data)
    THEN ArrOrThrow([i \in 1..Len(data.v) |-> transformReduced(data.v[i], fields)])
  ELSE IF TypeOf(data) # "object" THEN data
  ELSE IF In("results", data) /\ IsArray(Prop(data, "results"))
    THEN LET items == Prop(data, "results").v
             results == ArrOrThrow([i \in 1..Len(items) |-> transformObject(items[i], fields)])
         IN IF IsThrow(results) THEN results
            ELSE Obj([k \in DOMAIN extractMetadata(data) \cup {"results"} |->
                        IF k = "results" THEN results ELSE extractMetadata(data)[k]])
  ELSE transformObject(data, fields)

\* transformSuccessOnly without the count of a results array
transformSuccessOnlyNoCount(data, operationType) ==
  IF ~Truthy(data) \/ TypeOf(data) # "object" THEN Obj([success |-> Bool(TRUE)])
  ELSE IF In("id", data)
    THEN Obj([k \in {"success", "id", "message"}
                      \cup {k \in {"created_time", "last_edited_time"} : In(k, data)} |->
                CASE k = "success" -> Bool(TRUE)
                  [] k = "message" -> Str("Operation successful")
                  [] OTHER -> Prop(data, k)])
  ELSE IF IsArray(data)
    THEN Obj([success |-> Bool(TRUE), count |-> Int_(Len(data.v)),
              message |-> Str("Successfully processed " \o ToString(Len(data.v)) \o " item(s)")])
  ELSE Obj([success |-> Bool(TRUE)])

\* transformSuccessOnly(data, operationType)
transformSuccessOnly(data, operationType) ==
  IF ~Truthy(data) \/ TypeOf(data) # "object" THEN Obj([success |-> Bool(TRUE)])
  ELSE IF In("id", data)
    THEN LET counted == In("results", data) /\ IsArray(Prop(data, "results"))
             n == Len(Prop(data, "results").v)
             keys == {"success", "id", "message"}
                       \cup {k \in {"created_time", "last_edited_time"} : In(k, data)}
                       \cup (IF counted THEN {"count"} ELSE {})
         IN Obj([k \in keys |->
                   CASE k = "success" -> Bool(TRUE)
                     [] k = "count" -> Int_(n)
                     [] k = "message" ->
                          (IF counted
                           THEN Str("Successfully processed " \o ToString(n) \o " item(s)")
                           ELSE Str("Operation successful"))
                     [] OTHER -> Prop(data, k)])
  ELSE IF IsArray(data)
    THEN Obj([success |-> Bool(TRUE), count |-> Int_(Len(data.v)),
              message |-> Str("Successfully processed " \o ToString(Len(data.v)) \o " item(s)")])
  ELSE Obj([success |-> Bool(TRUE)])

\* detectOperationType(data); 10 is the key count of a "simple write response"
detectOperationType(data) ==
  IF ~Truthy(data) \/ TypeOf(data) # "object" THEN "read"
  ELSE IF /\ In("id", data) /\ In("created_time", data) /\ In("last_edited_time", data)
          /\ Cardinality(DOMAIN Entries(data)) <= 10
    THEN "write"
  ELSE "read"

\* a ?? b
Coalesce(a, b) == IF IsNullish(a) THEN b ELSE a

\* a Partial<TransformConfig>
TransformConfig(mode, fields, operationType) ==
  [mode |-> mode, fields |-> fields, operationType |-> operationType]

transformUnknownModeReduces(data, config, default) ==
  LET mode == Coalesce(config.mode, default)
  IN IF mode = Str("full") THEN data
     ELSE IF mode = Str("success_only") THEN transformSuccessOnly(data, "read")
     ELSE transformReduced(data, config.fields)

\* transform(data, config), default being this.defaultMode
transform(data, config, default) ==
  LET mode == Coalesce(config.mode, default)
      operationType ==
        IF IsNullish(config.operationType) THEN detectOperationType(data)
        ELSE config.operationType.v
  IN IF mode = Str("full") THEN data
     ELSE IF mode = Str("success_only") THEN transformSuccessOnly(data, operationType)
     ELSE IF mode = Str("reduced") THEN transformReduced(data, config.fields)
     ELSE data

\* new ResponseTransformer(defaultMode = 'full'): the transformer's state is
\* its defaultMode
ResponseTransformer(mode) == IF mode = Undefined THEN Str("full") ELSE mode

\* getDefaultMode()
getDefaultMode(transformer) == transformer

\* setDefaultMode(mode): the transformer afterwards
setDefaultMode(transformer, mode) == mode

\* createTransformerFromEnv(), env being process.env.NOTION_MCP_OUTPUT_MODE
createTransformerFromEnv(env) ==
  ResponseTransformer(IF Truthy(env) THEN env ELSE Str("full"))

\* a transform that keeps the mode it ran in as the default
TransformerAfterTransformSticky(transformer, config) ==
  setDefaultMode(transformer, Coalesce(config.mode, getDefaultMode(transformer)))

\* the transformer after transform(data, config): transform assigns nothing
TransformerAfterTransform(transformer, config) == transformer

-----------------------------------------------------------------------------
(* The responses given to the transformer *)

MaxLen == 2

\* the sequences over S of length at most n
SeqsUpTo(S, n) == UNION {[1..k -> S] : k \in 0..n}
ArraysOf(S) == {Arr(q) : q \in SeqsUpTo(S, MaxLen)}

\* a Property Value: {type: ty, [ty]: payload}
PV(ty, payload) == Obj([k \in {"type", ty} |-> IF k = "type" THEN Str(ty) ELSE payload])
PVs(ty, payloads) == {PV(ty, p) : p \in payloads} \cup {Obj([type |-> Str(ty)])}

TextFragment(content, link) ==
  Obj([type |-> Str("text"), text |-> Obj([content |-> content, link |-> link])])

Fragments ==
  {TextFragment(Str("Hello"), Null),
   TextFragment(Str("Docs"), Obj([url |-> Str("https://example.com")])),
   Obj([type |-> Str("mention"), mention |-> EmptyObj]),
   Null}

Option(name) == Obj([id |-> Str("o1"), name |-> name, color |-> Str("green")])

FileObjects ==
  {Obj([type |-> Str("external"), external |-> Obj([url |-> Str("https://e/x.png")])]),
   Obj([type |-> Str("file"),
        file |-> Obj([url |-> Str("https://s3/f.pdf"), expiry_time |-> Str("2026-01-01")])]),
   Obj([type |-> Str("file_upload")]),
   Null}

Person == Obj([object |-> Str("user"), id |-> Str("u1"), name |-> Str("Ada")])

PropertyValues ==
  PVs("title", ArraysOf(Fragments) \cup {Str("plain"), Null})
  \cup PVs("rich_text", ArraysOf({TextFragment(Str("a"), Null), TextFragment(Int_(5), Null)}))
  \cup PVs("select", {Option(Str("Done")), Obj([name |-> Str("Done")]), Null, Str("Done"),
                      EmptyObj})
  \cup PVs("status", {Option(Str("In progress")), Null})
  \cup PVs("multi_select", ArraysOf({Option(Str("A")), Option(Str("")), Null}) \cup {Null})
  \cup PVs("date", {Obj([start |-> Str("2026-01-01"), end |-> Null]),
                    Obj([start |-> Str("2026-01-01"), end |-> Str("2026-01-02")]), Null})
  \cup PVs("number", {Int_(0), Int_(5), Dec(15), Null})
  \cup PVs("checkbox", {Bool(FALSE), Bool(TRUE)})
  \cup PVs("url", {Str("https://example.com"), Null})
  \cup PVs("email", {Str("a@b.c"), Null})
  \cup PVs("phone_number", {Str("+33"), Null})
  \cup PVs("files", ArraysOf(FileObjects) \cup {Null})
  \cup PVs("people", ArraysOf({Person, Null}) \cup {Null})
  \cup PVs("relation", ArraysOf({Obj([id |-> Str("r1")])}) \cup {Null})
  \cup PVs("formula", {Obj([type |-> Str("string"), string |-> Str("x")]),
                       Obj([type |-> Str("string"), string |-> Null]),
                       Obj([type |-> Str("number"), number |-> Int_(0)]),
                       Obj([type |-> Str("boolean"), boolean |-> Bool(FALSE)]),
                       Obj([type |-> Str("date"), date |-> Obj([start |-> Str("2026-01-01")])]),
                       Obj([number |-> Int_(1), string |-> Str("x")]),
                       Obj([date |-> Null, boolean |-> Bool(TRUE)]),
                       EmptyObj, Null})
  \cup PVs("rollup", {Obj([type |-> Str("number"), number |-> Int_(3)]),
                      Obj([type |-> Str("date"), date |-> Null]),
                      Obj([type |-> Str("array"), array |-> Arr(<<Int_(1)>>)]),
                      Obj([type |-> Str("incomplete"), incomplete |-> EmptyObj]),
                      Obj([array |-> Arr(<<>>), date |-> Str("d"), incomplete |-> EmptyObj]),
                      Obj([type |-> Str("unsupported")]), Null})
  \cup PVs("created_time", {Str("2026-01-01T00:00:00Z")})
  \cup PVs("last_edited_time", {Str("2026-01-02T00:00:00Z")})
  \cup PVs("created_by", {Person, Null})
  \cup PVs("last_edited_by", {Person, Str("u1")})
  \cup PVs("unique_id", {Obj([prefix |-> Str("TASK"), number |-> Int_(7)]),
                         Obj([prefix |-> Null, number |-> Int_(7)]),
                         Obj([prefix |-> Str("TASK")]), Null})
  \cup PVs("place", {Obj([lat |-> Int_(48), lon |-> Int_(2)]), Null})
  \cup PVs("button", {EmptyObj})
  \cup PVs("verification", {Obj([state |-> Str("verified"),
                                  date |-> Obj([start |-> Str("2026-01-01"), end |-> Null]),
                                  history |-> Arr(<<Arr(<<Int_(1)>>), Null>>)])})
  \cup {Obj([id |-> Str("x1")]), Obj([type |-> Int_(5)]), Obj([type |-> Str("")]),
        Arr(<<Int_(1)>>)}

Primitives == {Undefined, Null, Bool(FALSE), Bool(TRUE), Int_(0), Int_(5), Str(""), Str("ab")}

\* what an array under a field holds
Elements ==
  {Null, Int_(1), Str("ab"), Obj([name |-> Str("n")]), Arr(<<Int_(1), Int_(2)>>),
   Obj([results |-> Arr(<<Int_(1)>>), has_more |-> Bool(FALSE)])}

Page(pv) ==
  Obj([object |-> Str("page"), id |-> Str("p1"), properties |-> Obj([Status |-> pv])])

Pages ==
  {Page(pv) : pv \in PropertyValues \cup {Null, Str("raw"), Int_(5)}}
  \cup {Obj([id |-> Str("p1"), properties |-> p]) : p \in {Null, Str("none"), EmptyObj}}

\* objects with a field that is not metadata and one that is
Blocks ==
  {ObjOf([id |-> Str("b1"), children |-> c, parent |-> m]) :
     c \in ArraysOf(Elements) \cup {Absent, Null, Str("ab"), Page(PV("number", Int_(5)))},
     m \in {Absent, Obj([type |-> Str("page_id"), page_id |-> Str("p1"),
                         properties |-> Obj([Rank |-> PV("number", Int_(5))])])}}

ResultItems == {Null, Int_(5), Str("ab"), Page(PV("select", Option(Str("Done")))),
                Obj([id |-> Str("p2")])}

Envelopes ==
  {ObjOf([object |-> Str("list"), results |-> r, next_cursor |-> c, has_more |-> h,
          request_id |-> q]) :
     r \in ArraysOf(ResultItems) \cup {Null}, c \in {Null}, h \in {Absent, Bool(FALSE)},
     q \in {Absent, Str("req")}}

Confirmations ==
  {ObjOf([id |-> i, created_time |-> c, last_edited_time |-> e, results |-> r]) :
     i \in {Absent, Str("p1")}, c \in {Absent, Str("2026-01-01")},
     e \in {Absent, Str("2026-01-02")},
     r \in {Absent, Arr(<<Int_(1), Int_(2), Int_(3)>>), Str("none")}}

Responses ==
  Primitives \cup ArraysOf(Elements) \cup Pages \cup Blocks \cup Envelopes \cup Confirmations

FieldLists ==
  {Undefined, Arr(<<>>), Arr(<<Str("id")>>), Arr(<<Str("properties")>>),
   Arr(<<Str("id"), Str("children"), Str("missing")>>), Arr(<<Str("parent"), Str("results")>>)}

OutputModes == {Str("full"), Str("reduced"), Str("success_only")}
RequestedModes == OutputModes \cup {Str("bogus"), Str("")}
DefaultModes == OutputModes \cup {Str("bogus")}

TransformCall(data, config) == [op |-> "transform", data |-> data, config |-> config]

TransformInputs ==
  {TransformCall(d, TransformConfig(m, f, Undefined)) :
     d \in Responses, m \in RequestedModes \cup {Undefined, Null}, f \in FieldLists}
  \cup
  {TransformCall(d, TransformConfig(m, Undefined, o)) :
     d \in Confirmations, m \in OutputModes, o \in {Str("read"), Str("write")}}

InitTransform ==
  /\ pc = "call"
  /\ input \in TransformInputs
  /\ result = NoResult
  /\ defaultMode \in DefaultModes
  /\ (input.config.mode \notin {Undefined, Null} => defaultMode = Str("full"))
  /\ sent = NoResult
  /\ reply = NoResult

\* a call of transform that builds its result in place, in the input
TransformInPlace ==
  /\ pc = "call"
  /\ input.op = "transform"
  /\ result' = transform(input.data, input.config, defaultMode)
  /\ input' = [input EXCEPT !.data = result']
  /\ pc' = "done"
  /\ UNCHANGED <<defaultMode, sent, reply>>

\* one call of ResponseTransformer.transform
Transform ==
  /\ pc = "call"
  /\ input.op = "transform"
  /\ result' = transform(input.data, input.config, defaultMode)
  /\ pc' = "done"
  /\ UNCHANGED <<input, defaultMode, sent, reply>>

SpecTransform == InitTransform /\ [][Transform]_vars

Transformed == pc = "done" /\ input.op = "transform"

\* the mode the call ran in: config.mode ?? this.defaultMode
Mode == Coalesce(input.config.mode, defaultMode)

-----------------------------------------------------------------------------
(* proxy.ts: the tool-call handler *)

\* JSON.stringify(x) as the JSON document it writes: NaN becomes null, an
\* undefined field is left out, an undefined element becomes null.  The text
\* is held as the value the document denotes, [t |-> "json"], so the order of
\* the keys in the text is not modelled.
RECURSIVE JsonValue(_)
JsonValue(x) ==
  CASE x.t \in {"undefined", "NaN"} -> Null
    [] x.t = "array" -> Arr([i \in 1..Len(x.v) |-> JsonValue(x.v[i])])
    [] x.t = "object" ->
         Obj([k \in {k \in DOMAIN x.v : x.v[k] # Undefined} |-> JsonValue(x.v[k])])
    [] OTHER -> x

Json(v) == [t |-> "json", v |-> v]

\* JSON.stringify(x): undefined for undefined
JSONStringify(x) == IF x = Undefined THEN Undefined ELSE Json(JsonValue(x))

\* JSON.parse(text) for the documents the model's clients send; any other
\* text is a syntax error
JsonTexts ==
  [text \in {"{\"page_id\":\"p1\"}", "[\"id\",\"properties\"]", "{\"a\":1}",
             "{\"filter\":\"{\\\"a\\\":1}\"}"} |->
     CASE text = "{\"page_id\":\"p1\"}" -> Obj([page_id |-> Str("p1")])
       [] text = "[\"id\",\"properties\"]" -> Arr(<<Str("id"), Str("properties")>>)
       [] text = "{\"a\":1}" -> Obj([a |-> Int_(1)])
       [] text = "{\"filter\":\"{\\\"a\\\":1}\"}" -> Obj([filter |-> Str("{\"a\":1}")])]

RECURSIVE SkipBack(_, _, _)
\* last index <= i of s whose character is not in set (0 if none)
SkipBack(s, i, set) ==
  IF i >= 1 /\ CharAt(s, i) \in set THEN SkipBack(s, i - 1, set) ELSE i

\* String.prototype.trim
Trim(s) == SubSeq(s, SkipWhile(s, 1, Whitespace), SkipBack(s, Len(s), Whitespace))

\* white space around the document is allowed
JSONParse(text) ==
  IF Trim(text) \in DOMAIN JsonTexts THEN JsonTexts[Trim(text)] ELSE Throw("SyntaxError")

\* the test of deserializeParams: the trimmed text is wrapped in {} or in []
LooksLikeJson(s) ==
  LET trimmed == Trim(s)
      first == CharAt(trimmed, 1)
      last == CharAt(trimmed, Len(trimmed))
  IN Len(trimmed) > 0 /\ ((first = "{" /\ last = "}") \/ (first = "[" /\ last = "]"))

RECURSIVE deserializeParams(_)
\* deserializeParams(params): a string that parses to an object or an array is
\* replaced by it, an object recursively; every other value is kept
deserializeParams(params) ==
  LET e == Entries(params)
  IN Obj([key \in DOMAIN e |->
            LET value == e[key]
                parsed == JSONParse(value.v)
            IN IF value.t = "string" /\ LooksLikeJson(value.v)
                  /\ ~IsThrow(parsed) /\ TypeOf(parsed) = "object" /\ parsed # Null
               THEN (IF IsArray(parsed) THEN parsed ELSE deserializeParams(parsed))
               ELSE value])

UpperCase == "ABCDEFGHIJKLMNOPQRSTUVWXYZ"
LowerCase == "abcdefghijklmnopqrstuvwxyz"

RECURSIVE toLowerCase(_)
\* String.prototype.toLowerCase for ASCII letters
toLowerCase(s) ==
  IF s = "" THEN ""
  ELSE LET c == CharAt(s, 1)
           up == {i \in 1..26 : CharAt(UpperCase, i) = c}
       IN (IF up = {} THEN c ELSE CharAt(LowerCase, CHOOSE i \in up : TRUE))
            \o toLowerCase(SubSeq(s, 2, Len(s)))

\* this.openApiLookup: the operations of the OpenAPI document by tool name
Operation(method, operationId) == [method |-> method, operationId |-> operationId]

OpenApiLookup ==
  [name \in {"retrieve-a-page", "patch-page", "retrieve-a-block", "legacy"} |->
     CASE name = "retrieve-a-page" -> Operation(Str("GET"), Str("retrieve-a-page"))
       [] name = "patch-page" -> Operation(Str("patch"), Str("patch-page"))
       [] name = "retrieve-a-block" -> Operation(Str("get"), Str("retrieve-a-block"))
       [] name = "legacy" -> Operation(Undefined, Null)]

\* findOperation(operationId)
findOperation(name) ==
  IF name \in DOMAIN OpenApiLookup THEN OpenApiLookup[name] ELSE Null

\* the split with _fields left among the apiParams
ApiParamsKeepsFields(deserializedParams) ==
  Obj([k \in DOMAIN deserializedParams.v \ {"_output"} |-> deserializedParams.v[k]])

\* const { _output, _fields, ...apiParams } = deserializedParams
ApiParams(deserializedParams) ==
  Obj([k \in DOMAIN deserializedParams.v \ {"_output", "_fields"} |->
         deserializedParams.v[k]])

\* params ? deserializeParams(params) : {}
DeserializedParams(params) ==
  IF Truthy(params) THEN deserializeParams(params) ELSE EmptyObj

\* the transformConfig with _output left out
HandlerTransformConfigNoOverride(operation, deserializedParams) ==
  LET method == IF IsNullish(operation.method) THEN "" ELSE toLowerCase(operation.method.v)
  IN TransformConfig(Undefined, Get(deserializedParams, "_fields"),
                     IF method \in {"get", "head"} THEN Str("read") ELSE Str("write"))

\* the transformConfig of the handler
HandlerTransformConfig(operation, deserializedParams) ==
  LET _output == Get(deserializedParams, "_output")
      method == IF IsNullish(operation.method) THEN "" ELSE toLowerCase(operation.method.v)
  IN TransformConfig(IF Truthy(_output) THEN _output ELSE Undefined,
                     Get(deserializedParams, "_fields"),
                     IF method \in {"get", "head"} THEN Str("read") ELSE Str("write"))

\* the response path with an exception of transform turned into an error result
SuccessResultCatchesAll(data, config, default) ==
  LET transformedData == transform(data, config, default)
  IN Obj([content |->
            Arr(<<Obj([type |-> Str("text"),
                       text |-> IF IsThrow(transformedData) THEN Str(transformedData.v)
                                ELSE JSONStringify(transformedData)])>>),
          isError |-> Bool(IsThrow(transformedData))])

\* the value returned for a response of the remote call
SuccessResult(data, config, default) ==
  LET transformedData == transform(data, config, default)
  IN IF IsThrow(transformedData) THEN transformedData
     ELSE Obj([content |->
                 Arr(<<Obj([type |-> Str("text"), text |-> JSONStringify(transformedData)])>>)])

\* the value returned for a HttpClientError of the remote call
ErrorResult(error, operation, apiParams) ==
  LET mcpError == mapNotionErrorToMCPError(error, Coalesce(operation.operationId, Undefined),
                    IF Cardinality(DOMAIN apiParams.v) > 0 THEN apiParams ELSE Undefined)
      userMessage == formatUserMessage(mcpError)
  IN Obj([content |->
            Arr(<<Obj([type |-> Str("text"),
                       text |-> JSONStringify(Obj([message |-> Str(userMessage),
                                                   error |-> toJSON(mcpError)]))])>>),
          isError |-> Bool(TRUE)])

-----------------------------------------------------------------------------
(* The tool calls given to the handler and the outcomes of the remote call *)

ToolNames == DOMAIN OpenApiLookup \cup {"no-such-tool"}

ToolArguments ==
  {Undefined,
   Obj([page_id |-> Str("p1")]),
   Obj([page_id |-> Str("p1"), _output |-> Str("reduced")]),
   Obj([page_id |-> Str("p1"), _output |-> Str("success_only")]),
   Obj([page_id |-> Str("p1"), _output |-> Str("full"), _fields |-> Arr(<<Str("id")>>)]),
   Obj([_output |-> Str("reduced"), _fields |-> Str("[\"id\",\"properties\"]")]),
   Obj([page_id |-> Str("p1"), _output |-> Str("")]),
   Obj([body |-> Str("{\"filter\":\"{\\\"a\\\":1}\"}"), _output |-> Str("bogus")]),
   Obj([note |-> Str(" {oops} "), parent |-> Str(" {\"page_id\":\"p1\"}")])}

ToolCall(name, arguments) == [op |-> "tool", name |-> name, arguments |-> arguments]

\* response.data of a successful remote call
RemoteData ==
  {Null, Arr(<<>>), Page(PV("select", Option(Str("Done")))),
   Obj([id |-> Str("p1"), created_time |-> Str("2026-01-01"),
        last_edited_time |-> Str("2026-01-02")]),
   Obj([object |-> Str("list"), has_more |-> Bool(FALSE),
        results |-> Arr(<<Page(PV("number", Int_(5)))>>)]),
   Obj([object |-> Str("list"), results |-> Arr(<<Null>>)])}

\* the HttpClientError a failed remote call rejects with
RemoteErrors ==
  {HttpClientError(s, d, m, h) :
     s \in {400, 401, 403, 404, 409, 429, 500, 503},
     d \in {Undefined,
            Obj([message |-> Str("Resource not found"), code |-> Str("permission_required")]),
            Obj([retry_after |-> Str("abc")])},
     m \in {"404 Not Found"},
     h \in {Undefined, Headers(Str("10"))}}

Response(data) == [t |-> "response", data |-> data]
Rejection(error) == [t |-> "HttpClientError", error |-> error]
OtherRejection == [t |-> "Error"]

InitHandler ==
  /\ pc = "call"
  /\ input \in {ToolCall(n, a) : n \in ToolNames, a \in ToolArguments}
  /\ result = NoResult
  /\ defaultMode \in {Str("full"), Str("reduced")}
  /\ sent = NoResult
  /\ reply = NoResult

\* the handler up to its await: the operation is looked up, the arguments are
\* deserialized and split, and the remote call is issued with apiParams
CallTool ==
  /\ pc = "call"
  /\ input.op = "tool"
  /\ LET operation == findOperation(input.name)
     IN IF operation = Null
        THEN /\ result' = Throw("Error")
             /\ pc' = "done"
             /\ UNCHANGED sent
        ELSE /\ sent' = [operation |-> operation,
                         params |-> ApiParams(DeserializedParams(input.arguments))]
             /\ pc' = "await"
             /\ UNCHANGED result
  /\ UNCHANGED <<input, defaultMode, reply>>

\* the remote call resolves with a response: the try block runs to its return
\* or to the exception transform throws, which the catch block rethrows
Respond ==
  /\ pc = "await"
  /\ \E data \in RemoteData :
       /\ reply' = Response(data)
       /\ result' = SuccessResult(data,
                      HandlerTransformConfig(sent.operation,
                                             DeserializedParams(input.arguments)),
                      defaultMode)
  /\ pc' = "done"
  /\ UNCHANGED <<input, defaultMode, sent>>

\* the remote call rejects with a HttpClientError: the catch block returns the
\* structured error
Fail ==
  /\ pc = "await"
  /\ \E error \in RemoteErrors :
       /\ reply' = Rejection(error)
       /\ result' = ErrorResult(error, sent.operation, sent.params)
  /\ pc' = "done"
  /\ UNCHANGED <<input, defaultMode, sent>>

\* the remote call rejects with anything else: the catch block rethrows it
Rethrow ==
  /\ pc = "await"
  /\ reply' = OtherRejection
  /\ result' = Throw("Error")
  /\ pc' = "done"
  /\ UNCHANGED <<input, defaultMode, sent>>

SpecHandler == InitHandler /\ [][CallTool \/ Respond \/ Fail \/ Rethrow]_vars

\* the handler has finished a call whose remote call was issued
Handled == pc = "done" /\ input.op = "tool" /\ reply # NoResult

-----------------------------------------------------------------------------
(* The adapter: constructed once from the environment, then serving several
   tool calls whose handlers interleave at their await. Here input holds the
   environment string and the calls; result, sent and reply hold one value
   per call. *)

NumCalls == 2

Calls == 1..NumCalls

\* process.env.NOTION_MCP_OUTPUT_MODE: undefined when the variable is not set
EnvValues ==
  {Undefined, Str(""), Str("full"), Str("reduced"), Str("success_only"), Str("bogus")}

AdapterCalls ==
  {ToolCall("retrieve-a-page", Obj([page_id |-> Str("p1")])),
   ToolCall("retrieve-a-page", Obj([page_id |-> Str("p1"), _output |-> Str("reduced")])),
   ToolCall("patch-page", Obj([page_id |-> Str("p1"), _output |-> Str("success_only")])),
   ToolCall("retrieve-a-page", Obj([page_id |-> Str("p1"), _output |-> Str("")])),
   ToolCall("retrieve-a-page", Obj([page_id |-> Str("p1"), _output |-> Str("full")])),
   ToolCall("no-such-tool", Undefined)}

AdapterData == {Page(PV("select", Option(Str("Done"))))}

AdapterErrors == {HttpClientError(404, Undefined, "404 Not Found", Undefined)}

AdapterInput(env, calls) == [op |-> "adapter", env |-> env, calls |-> calls]

InitAdapter ==
  /\ pc = "new"
  /\ input \in {AdapterInput(env, calls) : env \in EnvValues, calls \in [Calls -> AdapterCalls]}
  /\ defaultMode = NoResult
  /\ result = [i \in Calls |-> NoResult]
  /\ sent = [i \in Calls |-> NoResult]
  /\ reply = [i \in Calls |-> NoResult]

\* the constructor of the adapter: this.transformer = createTransformerFromEnv()
Construct ==
  /\ pc = "new"
  /\ input.op = "adapter"
  /\ defaultMode' = createTransformerFromEnv(input.env)
  /\ pc' = "serving"
  /\ UNCHANGED <<input, result, sent, reply>>

\* the handler of call i up to its await
Begin(i) ==
  /\ pc = "serving"
  /\ sent[i] = NoResult
  /\ result[i] = NoResult
  /\ LET operation == findOperation(input.calls[i].name)
     IN IF operation = Null
        THEN /\ result' = [result EXCEPT ![i] = Throw("Error")]
             /\ UNCHANGED sent
        ELSE /\ sent' = [sent EXCEPT ![i] =
                           [operation |-> operation,
                            params |-> ApiParams(DeserializedParams(input.calls[i].arguments))]]
             /\ UNCHANGED result
  /\ UNCHANGED <<pc, input, defaultMode, reply>>

\* call i is at its await
Awaiting(i) == pc = "serving" /\ sent[i] # NoResult /\ reply[i] = NoResult

\* the remote call of call i resolves with a response
RespondTo(i) ==
  /\ Awaiting(i)
  /\ \E data \in AdapterData :
       LET config == HandlerTransformConfig(sent[i].operation,
                                            DeserializedParams(input.calls[i].arguments))
       IN /\ reply' = [reply EXCEPT ![i] = Response(data)]
          /\ result' = [result EXCEPT ![i] =
                          SuccessResult(data, config, getDefaultMode(defaultMode))]
          /\ defaultMode' = TransformerAfterTransform(defaultMode, config)
  /\ UNCHANGED <<pc, input, sent>>

\* the remote call of call i rejects with a HttpClientError
FailTo(i) ==
  /\ Awaiting(i)
  /\ \E error \in AdapterErrors :
       /\ reply' = [reply EXCEPT ![i] = Rejection(error)]
       /\ result' = [result EXCEPT ![i] = ErrorResult(error, sent[i].operation, sent[i].params)]
  /\ UNCHANGED <<pc, input, defaultMode, sent>>

\* the remote call of call i rejects with anything else
RethrowTo(i) ==
  /\ Awaiting(i)
  /\ reply' = [reply EXCEPT ![i] = OtherRejection]
  /\ result' = [result EXCEPT ![i] = Throw("Error")]
  /\ UNCHANGED <<pc, input, defaultMode, sent>>

BeginCall == \E i \in Calls : Begin(i)
RespondCall == \E i \in Calls : RespondTo(i)
FailCall == \E i \in Calls : FailTo(i)
RethrowCall == \E i \in Calls : RethrowTo(i)

SpecAdapter ==
  InitAdapter /\ [][Construct \/ BeginCall \/ RespondCall \/ FailCall \/ RethrowCall]_vars

\* the adapter is constructed
Serving == input.op = "adapter" /\ pc = "serving"

-----------------------------------------------------------------------------
(* The two components together *)

Init ==
  InitClassify \/ InitSerialize \/ InitFormat \/ InitTransform \/ InitHandler \/ InitAdapter

Next ==
  \/ Classify \/ Serialize \/ Format \/ Transform
  \/ CallTool \/ Respond \/ Fail \/ Rethrow
  \/ Construct \/ BeginCall \/ RespondCall \/ FailCall \/ RethrowCall

Spec == Init /\ [][Next]_vars

-----------------------------------------------------------------------------
(* Claims about the transformer, checked under SpecTransform *)

\* C7: the Normalizer never throws: transform returns a value for every
\* JSON-like input, every mode and every fields list.
C7_NormalizerNeverThrows == Transformed => ~IsThrow(result)

\* C8: in mode full, and in any mode outside {full, reduced, success_only},
\* transform returns its input unchanged, so transforming the result again
\* gives the same value.
C8_FullIsIdentity ==
  (Transformed /\ Mode \notin {Str("reduced"), Str("success_only")}) =>
    /\ result = input.data
    /\ transform(result, input.config, defaultMode) = input.data

\* a page whose reduced form differs from it went through an unknown mode
C8_Witness ==
  /\ Transformed
  /\ Mode = Str("bogus")
  /\ input.data = Page(PV("select", Option(Str("Done"))))
  /\ transformReduced(input.data, Undefined) # input.data
  /\ result = input.data

\* the input is a single resource: an object that is neither an array nor a
\* pagination envelope
SingleResource(data) ==
  /\ data.t = "object"
  /\ ~("results" \in DOMAIN data.v /\ IsArray(data.v["results"]))

\* C9: in reduced mode with a non-empty fields list the output holds exactly
\* the named fields the object has, each emitted by the per-field rule of the
\* pass without a list: metadata verbatim, properties through Property Value
\* extraction, everything else recursively transformed.
C9_FieldsSamePerFieldRule ==
  (/\ Transformed
   /\ Mode = Str("reduced")
   /\ HasFields(input.config.fields)
   /\ SingleResource(input.data)) =>
    result = ObjOrThrow([f \in FieldNames(input.config.fields) \cap DOMAIN input.data.v |->
                           TransformField(f, input.data.v[f])])

\* C10: in reduced mode a null or primitive value is returned unchanged and an
\* array is transformed element-wise, at the top level and under every field
\* that is not metadata: the output array has the same length, a null or
\* primitive element stays what it was and a nested array stays an array of
\* the same length.
ElementWise(in, out) ==
  /\ IsArray(out)
  /\ Len(out.v) = Len(in.v)
  /\ \A i \in 1..Len(in.v) :
       /\ (TypeOf(in.v[i]) # "object" \/ in.v[i] = Null) => out.v[i] = in.v[i]
       /\ IsArray(in.v[i]) => (IsArray(out.v[i]) /\ Len(out.v[i].v) = Len(in.v[i].v))

C10_ArraysElementWise ==
  (/\ Transformed
   /\ Mode = Str("reduced")
   /\ ~HasFields(input.config.fields)
   /\ ~IsThrow(result)) =>
    /\ (TypeOf(input.data) # "object" \/ input.data = Null) => result = input.data
    /\ IsArray(input.data) => ElementWise(input.data, result)
    /\ SingleResource(input.data) =>
         \A k \in DOMAIN input.data.v :
           (~isMetadataField(k) /\ k # "properties" /\ IsArray(input.data.v[k])) =>
             ElementWise(input.data.v[k], result.v[k])

\* the input is a pagination envelope: an object carrying a results array
Envelope(data) ==
  /\ data.t = "object"
  /\ "results" \in DOMAIN data.v
  /\ IsArray(data.v["results"])

\* C11: in reduced mode an object carrying a results array yields an object
\* whose keys are exactly results plus the pagination fields (next_cursor,
\* prev_cursor, has_more, type, object) the input has, each with its input
\* value; the output results has the input's length and its i-th element is
\* the i-th input element transformed as a single resource.
C11_EnvelopeReduced ==
  (Transformed /\ Mode = Str("reduced") /\ Envelope(input.data)) =>
    LET items == input.data.v["results"].v
    IN /\ result.t = "object"
       /\ DOMAIN result.v = {"results"} \cup (PaginationFields \cap DOMAIN input.data.v)
       /\ \A k \in DOMAIN result.v \ {"results"} : result.v[k] = input.data.v[k]
       /\ IsArray(result.v["results"])
       /\ Len(result.v["results"].v) = Len(items)
       /\ \A i \in 1..Len(items) :
            result.v["results"].v[i] = transformObject(items[i], input.config.fields)

\* C12: in reduced mode without a fields list a single resource object yields
\* an object with exactly the same keys: a key of the metadata allow-list keeps
\* its input value, properties (when it is an object) has every entry replaced
\* by its Property Value extraction, every other key is recursively
\* transformed.
C12_SingleResourceReduced ==
  (/\ Transformed
   /\ Mode = Str("reduced")
   /\ ~HasFields(input.config.fields)
   /\ SingleResource(input.data)) =>
    /\ result.t = "object"
    /\ DOMAIN result.v = DOMAIN input.data.v
    /\ \A k \in DOMAIN input.data.v :
         LET v == input.data.v[k]
         IN IF isMetadataField(k) THEN result.v[k] = v
            ELSE IF k = "properties" /\ IsObjectLike(v)
              THEN /\ result.v[k].t = "object"
                   /\ DOMAIN result.v[k].v = DOMAIN Entries(v)
                   /\ \A p \in DOMAIN Entries(v) :
                        result.v[k].v[p] = extractNotionValue(Entries(v)[p])
            ELSE result.v[k] = transformValue(v, k)

\* the text of the message for n processed items
ProcessedMessage(n) == Str("Successfully processed " \o ToString(n) \o " item(s)")

\* C13: success_only returns {success: true} for an input that is not an
\* object; for an object with an id it returns success, id, created_time and
\* last_edited_time when the input has them, and either count and the
\* "Successfully processed N item(s)" message when the object has a results
\* array or the "Operation successful" message; for an array it returns
\* success, count and the processed message; no other field of the input is in
\* the output.
C13_SuccessOnly ==
  (Transformed /\ Mode = Str("success_only")) =>
    LET d == input.data
        times == {"created_time", "last_edited_time"}
    IN /\ d.t \notin {"object", "array"} => result = Obj([success |-> Bool(TRUE)])
       /\ (d.t = "object" /\ "id" \in DOMAIN d.v) =>
            /\ result.t = "object"
            /\ DOMAIN result.v =
                 {"success", "id", "message"} \cup (times \cap DOMAIN d.v)
                   \cup (IF Envelope(d) THEN {"count"} ELSE {})
            /\ result.v["success"] = Bool(TRUE)
            /\ \A k \in {"id"} \cup (times \cap DOMAIN d.v) : result.v[k] = d.v[k]
            /\ Envelope(d) =>
                 /\ result.v["count"] = Int_(Len(d.v["results"].v))
                 /\ result.v["message"] = ProcessedMessage(Len(d.v["results"].v))
            /\ ~Envelope(d) => result.v["message"] = Str("Operation successful")
       /\ IsArray(d) =>
            result = Obj([success |-> Bool(TRUE), count |-> Int_(Len(d.v)),
                          message |-> ProcessedMessage(Len(d.v))])
       /\ result.t = "object"
       /\ DOMAIN result.v \subseteq {"success", "id", "count", "message"} \cup times

\* a confirmation with an id, both timestamps and three results was summarised
C13_Witness ==
  /\ Transformed
  /\ Mode = Str("success_only")
  /\ input.data = Obj([id |-> Str("p1"), created_time |-> Str("2026-01-01"),
                       last_edited_time |-> Str("2026-01-02"),
                       results |-> Arr(<<Int_(1), Int_(2), Int_(3)>>)])
  /\ result = Obj([success |-> Bool(TRUE), id |-> Str("p1"),
                   created_time |-> Str("2026-01-01"),
                   last_edited_time |-> Str("2026-01-02"), count |-> Int_(3),
                   message |-> Str("Successfully processed 3 item(s)")])

\* the tags extractNotionValue has a case for
KnownTypes ==
  {"title", "rich_text", "select", "multi_select", "date", "number", "checkbox",
   "url", "email", "phone_number", "files", "people", "relation", "formula",
   "rollup", "status", "created_time", "created_by", "last_edited_time",
   "last_edited_by", "unique_id", "place"}

\* a Property Value whose type is not one of the known tags
UnknownType(pv) ==
  /\ pv.t = "object"
  /\ "type" \in DOMAIN pv.v
  /\ ~(pv.v["type"].t = "string" /\ pv.v["type"].v \in KnownTypes)

C15_InputNotMutated ==
  [][(/\ pc = "call"
      /\ input.op = "transform"
      /\ Mode \in {Str("success_only"), Str("reduced")}) => input' = input]_vars

\* a call in one of the two modes returned a structure other than its input,
\* which still is the page it was given
C15_Witness ==
  /\ Transformed
  /\ Mode \in {Str("success_only"), Str("reduced")}
  /\ input.data = Page(PV("select", Option(Str("Done"))))
  /\ input.config.fields = Arr(<<Str("properties")>>)
  /\ ~IsThrow(result)
  /\ result # input.data

-----------------------------------------------------------------------------
(* Claims about the tool-call handler, checked under SpecHandler *)

\* the returned result carries isError: true
Flagged ==
  /\ result.t = "object"
  /\ "isError" \in DOMAIN result.v
  /\ result.v["isError"] = Bool(TRUE)

\* the text of the single content item of the returned result
ResultText == result.v["content"].v[1].v["text"]

\* C16: the handler's response is flagged as an error exactly when the remote
\* call failed with a HttpClientError; that response carries the formatted,
\* non-empty user message and the serialized Typed Error classified from that
\* failure; a call whose remote call succeeded returns the transformed data
\* without the flag.
C16_ErrorFlagIffRemoteFailure ==
  Handled =>
    /\ Flagged <=> reply.t = "HttpClientError"
    /\ reply.t = "HttpClientError" =>
         LET mcpError ==
               mapNotionErrorToMCPError(reply.error,
                 Coalesce(sent.operation.operationId, Undefined),
                 IF sent.params = EmptyObj THEN Undefined ELSE sent.params)
         IN /\ ResultText.t = "json"
            /\ ResultText.v.t = "object"
            /\ DOMAIN ResultText.v.v = {"message", "error"}
            /\ ResultText.v.v["message"].t = "string"
            /\ ResultText.v.v["message"].v # ""
            /\ ResultText.v.v["message"] = Str(formatUserMessage(mcpError))
            /\ ResultText.v.v["error"] = JsonValue(toJSON(mcpError))
    /\ reply.t = "response" =>
         /\ result.t = "object"
         /\ "isError" \notin DOMAIN result.v
         /\ ResultText =
              Json(JsonValue(transform(reply.data,
                     HandlerTransformConfig(sent.operation,
                                            DeserializedParams(input.arguments)),
                     defaultMode)))

-----------------------------------------------------------------------------
(* Claims about Property Value extraction, checked under SpecTransform *)

\* the call reduced a page, without a fields list, whose one property Status
\* is an object
ReducedPage ==
  /\ Transformed
  /\ Mode = Str("reduced")
  /\ ~HasFields(input.config.fields)
  /\ input.data \in Pages
  /\ "properties" \in DOMAIN input.data.v
  /\ input.data.v["properties"].t = "object"
  /\ "Status" \in DOMAIN input.data.v["properties"].v
  /\ input.data.v["properties"].v["Status"].t = "object"

\* the Property Value given, its tag, and what the call made of it
GivenPV == input.data.v["properties"].v["Status"]
GivenHasType(types) ==
  /\ "type" \in DOMAIN GivenPV.v
  /\ GivenPV.v["type"].t = "string"
  /\ GivenPV.v["type"].v \in types
GivenPayload == GivenPV.v[GivenPV.v["type"].v]
Extracted == result.v["properties"].v["Status"]

ScalarTypes == {"number", "checkbox", "url", "email", "phone_number"}

\* C21: for a Property Value of type number, checkbox, url, email or
\* phone_number, extraction returns the nested scalar payload as it is,
\* null, false and 0 included.
C21_ScalarsRoundTrip ==
  (/\ ReducedPage
   /\ GivenHasType(ScalarTypes)
   /\ GivenPV.v["type"].v \in DOMAIN GivenPV.v) =>
    /\ extractNotionValue(GivenPV) = GivenPayload
    /\ result.t = "object"
    /\ Extracted = GivenPayload

\* the number 0 came out as 0
C21_Witness ==
  /\ ReducedPage
  /\ GivenPV = PV("number", Int_(0))
  /\ Extracted = Int_(0)

\* the content a fragment gives to the joined text: that of a text fragment
ContentOf(frag) ==
  IF /\ frag.t = "object"
     /\ Get(frag, "type") = Str("text")
     /\ IsObjectLike(Get(frag, "text"))
     /\ Truthy(Get(Get(frag, "text"), "content"))
  THEN ToStr(Get(Get(frag, "text"), "content"))
  ELSE ""

RECURSIVE JoinedContent(_, _)
\* the contents of the fragments i.. of texts, in order, as one string
JoinedContent(texts, i) ==
  IF i > Len(texts) THEN "" ELSE ContentOf(texts[i]) \o JoinedContent(texts, i + 1)

\* the first fragment carries a link
FirstCarriesLink(texts) ==
  /\ Len(texts) > 0
  /\ texts[1].t = "object"
  /\ IsObjectLike(Get(texts[1], "text"))
  /\ IsObjectLike(Get(Get(texts[1], "text"), "link"))

\* C22: for title and rich_text with an array payload, extraction joins the
\* content of the payload's text fragments, in order, into one string, and
\* returns {content, url} instead of the string exactly when the first
\* fragment carries a link.
C22_TextJoin ==
  (/\ ReducedPage
   /\ GivenHasType({"title", "rich_text"})
   /\ GivenPV.v["type"].v \in DOMAIN GivenPV.v
   /\ IsArray(GivenPayload)) =>
    LET texts == GivenPayload.v
    IN /\ result.t = "object"
       /\ Extracted =
            IF FirstCarriesLink(texts)
            THEN Obj([content |-> Str(JoinedContent(texts, 1)),
                      url |-> Get(Get(Get(texts[1], "text"), "link"), "url")])
            ELSE Str(JoinedContent(texts, 1))

\* C23: for select and status, extraction returns the selected option's
\* display name, or null if the payload is unset; a reduced resource with
\* properties.Status = {type: "select", select: {name: "Done"}} has
\* properties.Status = "Done".
C23_SelectName ==
  (ReducedPage /\ GivenHasType({"select", "status"})) =>
    /\ result.t = "object"
    /\ Extracted =
         IF GivenPV.v["type"].v \in DOMAIN GivenPV.v /\ GivenPayload.t = "object"
         THEN (IF "name" \in DOMAIN GivenPayload.v THEN GivenPayload.v["name"]
               ELSE Undefined)
         ELSE Null
    /\ GivenPV = PV("select", Obj([name |-> Str("Done")])) => Extracted = Str("Done")

\* the resource of scenario D came out with properties.Status = "Done"
C23_Witness ==
  /\ ReducedPage
  /\ GivenPV = PV("select", Obj([name |-> Str("Done")]))
  /\ result = Obj([object |-> Str("page"), id |-> Str("p1"),
                   properties |-> Obj([Status |-> Str("Done")])])

\* the sub-fields looked for, in priority order
FormulaFields == <<"string", "number", "boolean", "date">>
RollupFields == <<"number", "date", "array">>

\* the positions in fields of the sub-fields the payload has
Present(payload, fields) == {i \in 1..Len(fields) : fields[i] \in DOMAIN payload.v}

\* the value of the first sub-field present, null if there is none or the
\* payload is not an object
FirstPresent(pv, fields) ==
  IF pv.v["type"].v \in DOMAIN pv.v /\ pv.v[pv.v["type"].v].t = "object"
  THEN LET payload == pv.v[pv.v["type"].v]
           present == Present(payload, fields)
       IN IF present = {} THEN Null
          ELSE payload.v[fields[CHOOSE i \in present : \A j \in present : i <= j]]
  ELSE Null

\* C24: formula extraction returns the first of the sub-fields string, number,
\* boolean, date that is present, and null if none is; rollup extraction
\* returns the first of number, date, array that is present, and null if none
\* is, an incomplete marker or not.
C24_FormulaRollupPriority ==
  /\ (ReducedPage /\ GivenHasType({"formula"})) =>
       (result.t = "object" /\ Extracted = FirstPresent(GivenPV, FormulaFields))
  /\ (ReducedPage /\ GivenHasType({"rollup"})) =>
       (result.t = "object" /\ Extracted = FirstPresent(GivenPV, RollupFields))

\* a formula payload with both number and string gave the string; likewise a
\* rollup with an incomplete marker only gives null
C24_Witness ==
  /\ ReducedPage
  /\ GivenPV = PV("formula", Obj([number |-> Int_(1), string |-> Str("x")]))
  /\ Extracted = Str("x")

-----------------------------------------------------------------------------
(* Claims about the rate-limit suggestion, checked under SpecClassify *)

\* the classifier returned a RateLimit error
RateLimited == Classified /\ result.t = "error" /\ InstanceOf(result, "RateLimitError")

\* the two suggestion texts of a RateLimit error
WaitText(retryAfter) == "Attendez " \o ToStr(retryAfter) \o " seconde(s) avant de réessayer."
SlowDownText == "Ralentissez les requêtes."

\* C27: the suggestion of a RateLimit error names the seconds to wait exactly
\* when the error carries retryAfter, which is then serialized, and is the
\* generic slow-down text exactly when retryAfter is absent, for every
\* retryAfter value, 0 included.
C27_SuggestionAgreesWithRetryAfter ==
  RateLimited =>
    IF result.retryAfter # Undefined
    THEN /\ result.suggestion = WaitText(result.retryAfter)
         /\ "retryAfter" \in DOMAIN toJSON(result).v
         /\ toJSON(result).v["retryAfter"] = result.retryAfter
    ELSE /\ result.suggestion = SlowDownText
         /\ "retryAfter" \notin DOMAIN toJSON(result).v

-----------------------------------------------------------------------------
(* Claims about the handler's parameters and modes, checked under SpecHandler *)

\* the parameters that steer the transformation
TransformationParameters == {"_output", "_fields"}

\* the names of the arguments of the call
ArgumentNames == IF Truthy(input.arguments) THEN DOMAIN input.arguments.v ELSE {}

\* the remote call was issued
Issued == input.op = "tool" /\ sent # NoResult

\* the serialized error of the error envelope returned
SerializedError == ResultText.v.v["error"]

\* C28: _output and _fields are never forwarded to the remote call and never
\* appear in the params of a serialized error: both see exactly the remaining
\* parameters, and the error has no params when no parameter remains.
C28_TransformationParametersStripped ==
  /\ Issued =>
       /\ DOMAIN sent.params.v = ArgumentNames \ TransformationParameters
       /\ \A k \in DOMAIN sent.params.v :
            sent.params.v[k] = deserializeParams(input.arguments).v[k]
  /\ (Handled /\ Flagged) =>
       IF ArgumentNames \subseteq TransformationParameters
       THEN "params" \notin DOMAIN SerializedError.v
       ELSE /\ "params" \in DOMAIN SerializedError.v
            /\ SerializedError.v["params"] = JsonValue(sent.params)
            /\ DOMAIN SerializedError.v["params"].v =
                 ArgumentNames \ TransformationParameters

\* a call with page_id, _output and _fields failed remotely and its error
\* reports page_id only
C28_Witness ==
  /\ Handled
  /\ Flagged
  /\ ArgumentNames = {"page_id", "_output", "_fields"}
  /\ sent.params = Obj([page_id |-> Str("p1")])
  /\ SerializedError.v["params"] = Obj([page_id |-> Str("p1")])

-----------------------------------------------------------------------------
(* Claims about the default mode and the calls of one adapter, checked under
   SpecAdapter *)

\* C25: the default mode comes from the environment string read when the
\* adapter is constructed: it is full if the string is absent or not the name
\* of a mode, and the named mode (full, reduced, success_only) otherwise.
C25_DefaultModeFromEnv ==
  Serving =>
    getDefaultMode(defaultMode) =
      IF input.env \in OutputModes THEN input.env ELSE Str("full")

\* the default mode fixed when the adapter was constructed
ConstructedDefault == getDefaultMode(createTransformerFromEnv(input.env))

\* the request a call issues, from the call alone
RequestOf(call) ==
  [operation |-> findOperation(call.name),
   params |-> ApiParams(DeserializedParams(call.arguments))]

\* what a call gives back, from the call, the outcome of its own remote call
\* and the default mode
OutcomeOf(call, outcome, default) ==
  LET operation == findOperation(call.name)
      deserializedParams == DeserializedParams(call.arguments)
  IN IF operation = Null \/ outcome.t = "Error" THEN Throw("Error")
     ELSE IF outcome.t = "HttpClientError"
     THEN ErrorResult(outcome.error, operation, ApiParams(deserializedParams))
     ELSE SuccessResult(outcome.data,
                        HandlerTransformConfig(operation, deserializedParams), default)

\* C26: in every interleaving of the calls of one adapter, what a call sends
\* and gives back depends only on that call's own inputs and the outcome of
\* its own remote call, together with the default mode fixed at construction,
\* which no call changes.
C26_CallsIndependent ==
  Serving =>
    /\ defaultMode = createTransformerFromEnv(input.env)
    /\ \A i \in Calls :
         /\ sent[i] # NoResult => sent[i] = RequestOf(input.calls[i])
         /\ result[i] # NoResult =>
              result[i] = OutcomeOf(input.calls[i], reply[i], ConstructedDefault)
    /\ \A i, j \in Calls :
         (/\ input.calls[i] = input.calls[j] /\ reply[i] = reply[j]
          /\ result[i] # NoResult /\ result[j] # NoResult) => result[i] = result[j]

\* the text of the single content item call i gave back
ResultTextOf(i) == result[i].v["content"].v[1].v["text"]

\* call i named _output
Names_output(i) ==
  /\ Truthy(input.calls[i].arguments)
  /\ "_output" \in DOMAIN input.calls[i].arguments.v

\* a call asking for reduced and a call asking for nothing both got the same
\* page from the remote API, under the default full: the second one came back
\* in full
C26_Witness ==
  /\ Serving
  /\ input.env = Undefined
  /\ Names_output(1) /\ input.calls[1].arguments.v["_output"] = Str("reduced")
  /\ ~Names_output(2)
  /\ reply[1].t = "response"
  /\ reply[2] = reply[1]
  /\ ResultTextOf(2) = Json(JsonValue(reply[2].data))
  /\ ResultTextOf(1) # ResultTextOf(2)

\* the mode call i is to be transformed in: its non-empty _output, the
\* default mode fixed at construction otherwise
ModeOf(i) ==
  IF Names_output(i) /\ input.calls[i].arguments.v["_output"] # Str("")
  THEN input.calls[i].arguments.v["_output"]
  ELSE ConstructedDefault

\* C29: a call with a non-empty _output is transformed in that mode, a call
\* without _output or with an empty one in the default mode, whatever the
\* other calls of the adapter asked for.
C29_OutputOverridesPerCall ==
  Serving =>
    \A i \in Calls :
      reply[i].t = "response" =>
        LET config == HandlerTransformConfig(sent[i].operation,
                                             DeserializedParams(input.calls[i].arguments))
            transformedData ==
              transform(reply[i].data, [config EXCEPT !.mode = ModeOf(i)], Undefined)
        IN IF IsThrow(transformedData) THEN result[i] = transformedData
           ELSE /\ result[i].t = "object"
                /\ ResultTextOf(i) = Json(JsonValue(transformedData))

\* under the default reduced, a call asking for full got the page as it is
\* and a call asking for nothing got the reduced page
C29_Witness ==
  /\ Serving
  /\ input.env = Str("reduced")
  /\ Names_output(1) /\ input.calls[1].arguments.v["_output"] = Str("full")
  /\ ~Names_output(2)
  /\ reply[1].t = "response"
  /\ reply[2] = reply[1]
  /\ ResultTextOf(1) = Json(JsonValue(reply[1].data))
  /\ ResultTextOf(2) = Json(JsonValue(transformReduced(reply[2].data, Undefined)))
  /\ ResultTextOf(1) # ResultTextOf(2)

-----------------------------------------------------------------------------
(* Claims about the exceptions of the handler, checked under SpecHandler *)

\* the handler has finished a call, issued or not
Finished == pc = "done" /\ input.op = "tool"

\* what transform gave for the response of the remote call
TransformedReply ==
  transform(reply.data,
            HandlerTransformConfig(sent.operation, DeserializedParams(input.arguments)),
            defaultMode)

\* C30: only a HttpClientError of the remote call becomes an error envelope:
\* any other exception, one thrown by transform after a successful remote call
\* included, leaves the handler as it is and no result is returned; a call
\* naming an unknown operation throws before any remote call is issued.
C30_OnlyRemoteFailuresEnveloped ==
  Finished =>
    /\ Flagged => reply.t = "HttpClientError"
    /\ reply = OtherRejection => result = Throw("Error")
    /\ (reply.t = "response" /\ IsThrow(TransformedReply)) => result = TransformedReply
    /\ findOperation(input.name) = Null =>
         (IsThrow(result) /\ sent = NoResult /\ reply = NoResult)

\* the remote call succeeded and the TypeError of transform left the handler
C30_Witness ==
  /\ Finished
  /\ reply.t = "response"
  /\ reply.data = Obj([object |-> Str("list"), results |-> Arr(<<Null>>)])
  /\ result = Throw("TypeError")

====
